---- MODULE Spec2Model ----
(***************************************************************************)
(* A model of MotionCam's capture core:                                    *)
(*   - RawBufferManager (libMotionCam/source/RawBufferManager.cpp), the    *)
(*     pool of raw buffers with its free queue, ready list, LockedBuffers  *)
(*     handles and pending container;                                      *)
(*   - CameraSession (MotionCam-Android/.../camera/CameraSession.cpp), the *)
(*     session controller with its event loop and HDR capture job.         *)
(* PoolSpec runs the pool's operations from several threads; Spec runs the *)
(* controller, its event loop, the host and the camera adapter through     *)
(* open, close, pause, resume and HDR capture; RequestSpec runs them       *)
(* through the exposure and focus calls; HdrLiveSpec runs an HDR capture   *)
(* under fair scheduling of the threads; RaceSpec has captureHdr called    *)
(* from several host threads at once; PendingRaceSpec runs save and        *)
(* saveHdr with the test and the assignment of the pending container as    *)
(* separate steps; PushRaceSpec does the same for pushEvent against        *)
(* closeCamera; FocusLiveSpec runs a focus-point request under fair        *)
(* scheduling of the event loop and the adapter's callbacks.               *)
(***************************************************************************)
EXTENDS Integers, Sequences, FiniteSets, TLC

\* ------------------------------------------------------------------ bounds
MaxBuffers == 2          \* buffers registered with addBuffer
MaxTimestamp == 2        \* frame timestamps are 1..MaxTimestamp
MaxHandles == 2          \* LockedBuffers handles alive at once
MaxProducerHeld == 1     \* buffers the producer holds between dequeue and enqueue
MaxSaveBuffers == 2      \* numSaveBuffers passed to save()
MaxSaveCalls == 1        \* save() calls, and saveHdr() calls, made on the pool directly
MaxOpens == 2            \* openCamera calls
MaxCalls == 2            \* pauseCapture and resumeCapture calls
MaxHdrCalls == 2         \* captureHdr calls
MaxHdrImages == 2        \* numImages passed to captureHdr is 0..MaxHdrImages
MaxCallbacks == 1        \* adapter callbacks not owed to a request of the controller
MaxStimuli == 4          \* host calls and such callbacks in one run, all kinds together
MaxQueue == 3            \* events waiting in the queue
MaxIso == 1              \* ISO values reported in capture results are 1..MaxIso
MaxSettings == 3         \* exposure and focus calls
MaxCloses == 1           \* closeCamera calls made when no session is open
MaxUserIso == 2          \* the iso passed to setManualExposure is 1..MaxUserIso
MaxUserExposureTime == 1 \* the exposure time passed to setManualExposure
MaxComp == 1             \* the camera's exposure compensation range is -MaxComp..MaxComp
MaxRegions == 1          \* the camera's maxAfRegions and maxAeRegions are 0..MaxRegions
TickMs == 5000           \* the clock advances by this many ms
HdrTimeoutMs == 5000     \* doAttemptSaveHdrData gives up after this many ms

Null == 0                \* nullptr, for a buffer
\* an empty std::shared_ptr<RawContainer>: a container always holds a frame
NoContainer == [frames |-> <<>>, isHdr |-> FALSE, referenceTimestamp |-> 0]
Timestamps == 1..MaxTimestamp
RawTypes == {"ZSL", "HDR"}
\* stands for std::numeric_limits<long>::max(): larger than any timestamp difference
LongMax == MaxTimestamp + 1

VARIABLES
    \* ---- RawBufferManager
    mUnusedBuffers,     \* the free queue (moodycamel::ConcurrentQueue)
    mReadyBuffers,      \* the ready list, guarded by mMutex
    mNumBuffers,        \* number of buffers added
    metadata,           \* buffer -> [timestampNs, rawType]
    mPendingContainer,  \* the in-memory container, or NoContainer
    diskContainer,      \* the container last written by saveContainer
    producerBuffers,    \* buffers held by the producer (dequeued, not yet enqueued)
    lockedBuffers,      \* the LockedBuffers handles alive, each a list of buffers
    saveCall,           \* the save() call in flight: its position and locals
    saveBudget,         \* save() and saveHdr() calls the pool's users may still make
    arrived,            \* the buffers made ready and not yet recycled, in the order
                        \* enqueueReadyBuffer received them
    crashed,            \* the program has run into undefined behaviour (a null or
                        \* out-of-range read): the run is not followed any further
    \* ---- CameraSession
    mSessionContext,    \* TRUE when mSessionContext is set
    eventLoopQueue,     \* mSessionContext->eventLoopQueue
    eventLoop,          \* the event loop thread: [running, recvdStop]
    nativeObjects,      \* [activeCamera, captureSession, captureRequests]: which are set
    mState,             \* CameraCaptureSessionState
    mLastIso,
    mHdrCaptureInProgress,
    mHdrCaptureSequenceCompleted,
    mHdrSequenceCompletedTimePoint,
    mRequestedHdrCaptures,
    mHdrCaptureOutputPath,
    mHdrCaptureSettings,
    mMode,              \* CameraMode: "AUTO" or "MANUAL"
    mExposureCompensation,
    mUserIso,
    mUserExposureTime,
    repeatCaptureRequest,   \* the entries and targets of mSessionContext->repeatCaptureRequest
    \* ---- the surroundings
    hostPc,             \* the host thread: "idle", or "joining" inside closeCamera
    budget,             \* calls and callbacks the surroundings may still make
    now,                \* std::chrono::steady_clock, in ms
    adapter,            \* the camera device and capture session, as the NDK holds them
    hdrRequestList,     \* the request list of the last HDR capture() call
    imageQueue,         \* images handed to RawImageConsumer::queueImage, by raw type
    listenerErrors,     \* TRUE once the listener was told of a camera error or disconnection
                        \* while no event of an API call was waiting: every API event
                        \* handled from then on comes from a call made after it
    hostSetupForRawPreview, \* the setupForRawPreview the host passed to the last openCamera
    mCameraDescription, \* the description the controller was constructed with:
                        \* [maxAfRegions, maxAeRegions]
    racingCalls,        \* the captureHdr calls of host threads that have passed the test of
                        \* line 350 and not yet run lines 355-368, each with its arguments
    emitted             \* listener, adapter, pool and log calls made by the last step,
                        \* in order

poolVars == <<mUnusedBuffers, mReadyBuffers, mNumBuffers, metadata, mPendingContainer,
              diskContainer, producerBuffers, lockedBuffers, saveCall, saveBudget,
              arrived>>

hdrVars == <<mHdrCaptureInProgress, mHdrCaptureSequenceCompleted,
             mHdrSequenceCompletedTimePoint, mRequestedHdrCaptures,
             mHdrCaptureOutputPath, mHdrCaptureSettings>>

requestVars == <<mMode, mExposureCompensation, mUserIso, mUserExposureTime,
                 repeatCaptureRequest>>

\* history variables, the description fixed at construction, the calls of further
\* host threads
ghostVars == <<listenerErrors, hostSetupForRawPreview, racingCalls, mCameraDescription>>

ctrlVars == <<mSessionContext, eventLoopQueue, eventLoop, nativeObjects, mState, mLastIso,
              hdrVars, requestVars, hostPc, budget, now, adapter, hdrRequestList, imageQueue,
              ghostVars, emitted>>

vars == <<poolVars, crashed, ctrlVars>>

\* ------------------------------------------------------------- sequences
Range(s) == {s[i] : i \in DOMAIN s}

Count(s, b) == Cardinality({i \in DOMAIN s : s[i] = b})

RemoveAt(s, i) == SubSeq(s, 1, i - 1) \o SubSeq(s, i + 1, Len(s))

RECURSIVE Filter(_, _)
Filter(s, keep) ==
    IF s = <<>> THEN <<>>
    ELSE IF Head(s) \in keep THEN <<Head(s)>> \o Filter(Tail(s), keep)
    ELSE Filter(Tail(s), keep)

Abs(x) == IF x < 0 THEN -x ELSE x

\* ------------------------------------------------------ RawBufferManager
\* no save() call in flight. buffers: the local of that name, once chosen
NoSave ==
    [pc |-> "idle", allBuffers |-> <<>>, referenceTimestamp |-> 0, numSaveBuffers |-> 0,
     buffers |-> <<>>]

PoolInit ==
    /\ mUnusedBuffers = <<>>
    /\ mReadyBuffers = <<>>
    /\ mNumBuffers = 0
    /\ metadata = [b \in 1..MaxBuffers |-> [timestampNs |-> 0, rawType |-> "ZSL"]]
    /\ mPendingContainer = NoContainer
    /\ diskContainer = NoContainer
    /\ producerBuffers = {}
    /\ lockedBuffers = <<>>
    /\ saveCall = NoSave
    /\ saveBudget = [save |-> MaxSaveCalls, saveHdr |-> MaxSaveCalls]
    /\ arrived = <<>>

\* the places a buffer can be in: the free queue, the ready list, the producer or a
\* LockedBuffers handle
RECURSIVE Flatten(_)
Flatten(ss) == IF ss = <<>> THEN <<>> ELSE Head(ss) \o Flatten(Tail(ss))

\* the places of buffer b outside a save() call in flight
Occurrences(b) ==
    Count(mUnusedBuffers, b) + Count(mReadyBuffers, b) + Count(Flatten(lockedBuffers), b)
    + (IF b \in producerBuffers THEN 1 ELSE 0)

\* the run is followed up to the first state in which a buffer is lost or duplicated;
\* the locals of a save() in flight hold a buffer that may also be back in the ready list
PoolBounded ==
    \A b \in 1..mNumBuffers :
        /\ Occurrences(b) <= 1
        /\ Occurrences(b) + Count(saveCall.allBuffers, b) >= 1

PoolRunning == ~crashed /\ PoolBounded

\* the arrival order once the buffers of a set have left the ready list for the free
\* queue or the producer
Recycle(order, buffers) == Filter(order, Range(order) \ buffers)

\* addBuffer: a new buffer goes to the free queue
addBuffer ==
    /\ PoolRunning
    /\ UNCHANGED <<crashed, ctrlVars>>
    /\ mNumBuffers < MaxBuffers
    /\ mUnusedBuffers' = Append(mUnusedBuffers, mNumBuffers + 1)
    /\ mNumBuffers' = mNumBuffers + 1
    /\ UNCHANGED <<mReadyBuffers, metadata, mPendingContainer, diskContainer,
                   producerBuffers, lockedBuffers, saveCall, saveBudget, arrived>>

\* dequeueUnusedBuffer as a function of the two partitions: the buffer handed out
\* (Null for nullptr) and the partitions afterwards
DequeueUnused(unused, ready) ==
    IF unused # <<>>
    THEN [buffer |-> Head(unused), unused |-> Tail(unused), ready |-> ready]
    ELSE IF ready # <<>>
    THEN [buffer |-> Head(ready), unused |-> unused, ready |-> Tail(ready)]
    ELSE [buffer |-> Null, unused |-> unused, ready |-> ready]

dequeueUnusedBuffer ==
    /\ PoolRunning
    /\ UNCHANGED <<crashed, ctrlVars>>
    /\ Cardinality(producerBuffers) < MaxProducerHeld
    /\ LET r == DequeueUnused(mUnusedBuffers, mReadyBuffers) IN
        /\ mUnusedBuffers' = r.unused
        /\ mReadyBuffers' = r.ready
        /\ producerBuffers' = IF r.buffer = Null THEN producerBuffers
                              ELSE producerBuffers \cup {r.buffer}
        /\ arrived' = Recycle(arrived, {r.buffer})
    /\ UNCHANGED <<mNumBuffers, metadata, mPendingContainer, diskContainer,
                   lockedBuffers, saveCall, saveBudget>>

\* enqueueReadyBuffer: push_back on the ready list
EnqueueReady(ready, buffer) == Append(ready, buffer)

\* the producer fills a buffer it holds (timestamp, raw type) and publishes it
enqueueReadyBuffer(b, ts, type) ==
    /\ PoolRunning
    /\ UNCHANGED <<crashed, ctrlVars>>
    /\ b \in producerBuffers
    /\ metadata' = [metadata EXCEPT ![b] = [timestampNs |-> ts, rawType |-> type]]
    /\ mReadyBuffers' = EnqueueReady(mReadyBuffers, b)
    /\ arrived' = Append(arrived, b)
    /\ producerBuffers' = producerBuffers \ {b}
    /\ UNCHANGED <<mUnusedBuffers, mNumBuffers, mPendingContainer, diskContainer,
                   lockedBuffers, saveCall, saveBudget>>

\* discardBuffer: a buffer the producer holds goes back to the free queue
discardBuffer(b) ==
    /\ PoolRunning
    /\ UNCHANGED <<crashed, ctrlVars>>
    /\ b \in producerBuffers
    /\ mUnusedBuffers' = Append(mUnusedBuffers, b)
    /\ producerBuffers' = producerBuffers \ {b}
    /\ UNCHANGED <<mReadyBuffers, mNumBuffers, metadata, mPendingContainer,
                   diskContainer, lockedBuffers, saveCall, saveBudget, arrived>>

\* returnBuffers giving back the first buffer only
ReturnBuffersFirstOnly(ready, buffers) ==
    IF buffers = <<>> THEN ready ELSE Append(ready, Head(buffers))

\* returnBuffers: back_inserter on the ready list
ReturnBuffers(ready, buffers) == ready \o buffers

\* numHdrBuffers: ready buffers tagged HDR
NumHdrBuffers(ready, meta) ==
    Cardinality({i \in DOMAIN ready : meta[ready[i]].rawType = "HDR"})

HdrOf(ready, meta) == {b \in Range(ready) : meta[b].rawType = "HDR"}

\* saveHdr giving the drained buffers back to the ready list, as save() does on its
\* disk path
SaveHdrReturningToReady(unused, ready, meta, pending, disk) ==
    LET buffers == Filter(ready, HdrOf(ready, meta))
        rest == Filter(ready, Range(ready) \ HdrOf(ready, meta))
        container == [frames |-> buffers, isHdr |-> TRUE, referenceTimestamp |-> -1]
    IN  IF buffers = <<>>
        THEN [unused |-> unused, ready |-> rest, pending |-> pending, disk |-> disk]
        ELSE [unused |-> unused,
              ready |-> rest \o buffers,
              pending |-> IF pending = NoContainer THEN container ELSE pending,
              disk |-> IF pending = NoContainer THEN disk ELSE container]

\* saveHdr: the HDR ready buffers are erased from the ready list under the lock, put
\* into a container (in memory when none is pending, else written to outputPath) and
\* enqueued on the free queue
SaveHdr(unused, ready, meta, pending, disk) ==
    LET buffers == Filter(ready, HdrOf(ready, meta))
        rest == Filter(ready, Range(ready) \ HdrOf(ready, meta))
        container == [frames |-> buffers, isHdr |-> TRUE, referenceTimestamp |-> -1]
    IN  IF buffers = <<>>
        THEN [unused |-> unused, ready |-> rest, pending |-> pending, disk |-> disk]
        ELSE [unused |-> unused \o buffers,
              ready |-> rest,
              pending |-> IF pending = NoContainer THEN container ELSE pending,
              disk |-> IF pending = NoContainer THEN disk ELSE container]

saveHdr ==
    /\ PoolRunning
    /\ UNCHANGED <<crashed, ctrlVars>>
    /\ saveBudget.saveHdr > 0
    /\ saveBudget' = [saveBudget EXCEPT !.saveHdr = @ - 1]
    /\ LET r == SaveHdr(mUnusedBuffers, mReadyBuffers, metadata, mPendingContainer, diskContainer) IN
        /\ mUnusedBuffers' = r.unused
        /\ mReadyBuffers' = r.ready
        /\ mPendingContainer' = r.pending
        /\ diskContainer' = r.disk
        /\ arrived' = Recycle(arrived, HdrOf(mReadyBuffers, metadata))
    /\ UNCHANGED <<mNumBuffers, metadata, producerBuffers, lockedBuffers, saveCall>>

\* save, lines 194-202: under the lock, return when the ready list is empty, else
\* move it into the local allBuffers
saveBegin(referenceTimestamp, numSaveBuffers) ==
    /\ PoolRunning
    /\ UNCHANGED <<crashed, ctrlVars>>
    /\ saveCall.pc = "idle"
    /\ saveBudget.save > 0
    /\ saveBudget' = [saveBudget EXCEPT !.save = @ - 1]
    /\ IF mReadyBuffers = <<>>
       THEN UNCHANGED <<mReadyBuffers, saveCall>>
       ELSE /\ saveCall' = [pc |-> "packaging", allBuffers |-> mReadyBuffers,
                            referenceTimestamp |-> referenceTimestamp,
                            numSaveBuffers |-> numSaveBuffers, buffers |-> <<>>]
            /\ mReadyBuffers' = <<>>
    /\ UNCHANGED <<mUnusedBuffers, mNumBuffers, metadata, mPendingContainer,
                   diskContainer, producerBuffers, lockedBuffers, arrived>>

\* save, lines 205-213: the index of the first buffer with the reference timestamp,
\* else the last index
ReferenceIdx(all, meta, referenceTimestamp) ==
    LET hits == {i \in DOMAIN all : meta[all[i]].timestampNs = referenceTimestamp}
    IN  IF hits = {} THEN Len(all) ELSE CHOOSE i \in hits : \A j \in hits : i <= j

ReferenceFound(all, meta, referenceTimestamp) ==
    \E i \in DOMAIN all : meta[all[i]].timestampNs = referenceTimestamp

\* save, lines 222-243: the loop that adds the closest images. Indices are 1-based
\* here; readySize is mReadyBuffers.size(), which line 229 reads instead of
\* allBuffers.size(). ub: the loop indexed allBuffers out of range.
RECURSIVE AddClosest(_, _, _, _, _, _, _, _)
AddClosest(all, meta, referenceIdx, leftIdx, rightIdx, numSaveBuffers, readySize, buffers) ==
    IF ~(numSaveBuffers > 0 /\ (leftIdx > 1 \/ rightIdx <= Len(all)))
    THEN [buffers |-> buffers, ub |-> FALSE]
    ELSE IF rightIdx <= readySize /\ rightIdx > Len(all)
    THEN [buffers |-> buffers, ub |-> TRUE]
    ELSE
        LET ref == meta[all[referenceIdx]].timestampNs
            leftDifference ==
                IF leftIdx >= 1 THEN Abs(meta[all[leftIdx]].timestampNs - ref) ELSE LongMax
            rightDifference ==
                IF rightIdx <= readySize THEN Abs(meta[all[rightIdx]].timestampNs - ref)
                ELSE LongMax
        IN  IF leftDifference < rightDifference
            THEN AddClosest(all, meta, referenceIdx, leftIdx - 1, rightIdx,
                            numSaveBuffers - 1, readySize, Append(buffers, all[leftIdx]))
            ELSE IF rightIdx > Len(all)
            THEN [buffers |-> buffers, ub |-> TRUE]
            ELSE AddClosest(all, meta, referenceIdx, leftIdx, rightIdx + 1,
                            numSaveBuffers - 1, readySize, Append(buffers, all[rightIdx]))

\* save, lines 204-243: the buffers chosen for the container
SelectBuffers(all, meta, referenceTimestamp, numSaveBuffers, readySize) ==
    LET referenceIdx == ReferenceIdx(all, meta, referenceTimestamp)
        first == IF ReferenceFound(all, meta, referenceTimestamp)
                 THEN <<all[referenceIdx]>> ELSE <<>>
    IN  AddClosest(all, meta, referenceIdx, referenceIdx - 1, referenceIdx + 1,
                   numSaveBuffers, readySize, first)

\* save, lines 245-288: the container is kept in memory when none is pending; else it
\* is written to outputPath and its LockedBuffers, dropped at the end of the block,
\* returns the chosen buffers to the ready list
savePackage ==
    /\ PoolRunning
    /\ UNCHANGED ctrlVars
    /\ saveCall.pc = "packaging"
    /\ LET all == saveCall.allBuffers
           sel == SelectBuffers(all, metadata, saveCall.referenceTimestamp,
                                saveCall.numSaveBuffers, Len(mReadyBuffers))
           container == [frames |-> sel.buffers, isHdr |-> FALSE,
                         referenceTimestamp |->
                            metadata[all[ReferenceIdx(all, metadata, saveCall.referenceTimestamp)]].timestampNs]
       IN  IF sel.ub
           THEN /\ crashed' = TRUE
                /\ UNCHANGED <<mReadyBuffers, mPendingContainer, diskContainer, saveCall>>
           ELSE /\ crashed' = crashed
                /\ saveCall' = [saveCall EXCEPT !.pc = "restoring"]
                /\ IF sel.buffers = <<>>
                   THEN UNCHANGED <<mReadyBuffers, mPendingContainer, diskContainer>>
                   ELSE IF mPendingContainer = NoContainer
                   THEN /\ mPendingContainer' = container
                        /\ UNCHANGED <<mReadyBuffers, diskContainer>>
                   ELSE /\ diskContainer' = container
                        /\ mReadyBuffers' = ReturnBuffers(mReadyBuffers, sel.buffers)
                        /\ UNCHANGED mPendingContainer
    /\ UNCHANGED <<mUnusedBuffers, mNumBuffers, metadata, producerBuffers, lockedBuffers, saveBudget, arrived>>

\* save as other threads see it, in the two steps they can come between. Lines
\* 204-261 and 272-287: the buffers are chosen and mPendingContainer is tested, outside
\* the lock; when a container is pending the new one is written to outputPath
savePackageTest ==
    /\ PoolRunning
    /\ UNCHANGED ctrlVars
    /\ saveCall.pc = "packaging"
    /\ LET all == saveCall.allBuffers
           sel == SelectBuffers(all, metadata, saveCall.referenceTimestamp,
                                saveCall.numSaveBuffers, Len(mReadyBuffers))
           container == [frames |-> sel.buffers, isHdr |-> FALSE,
                         referenceTimestamp |->
                            metadata[all[ReferenceIdx(all, metadata, saveCall.referenceTimestamp)]].timestampNs]
       IN  IF sel.ub
           THEN /\ crashed' = TRUE
                /\ UNCHANGED <<mReadyBuffers, diskContainer, saveCall>>
           ELSE /\ crashed' = crashed
                /\ IF sel.buffers = <<>>
                   THEN /\ saveCall' = [saveCall EXCEPT !.pc = "restoring"]
                        /\ UNCHANGED <<mReadyBuffers, diskContainer>>
                   ELSE IF mPendingContainer = NoContainer
                   THEN /\ saveCall' = [saveCall EXCEPT !.pc = "storing",
                                                        !.buffers = sel.buffers]
                        /\ UNCHANGED <<mReadyBuffers, diskContainer>>
                   ELSE /\ saveCall' = [saveCall EXCEPT !.pc = "restoring"]
                        /\ diskContainer' = container
                        /\ mReadyBuffers' = ReturnBuffers(mReadyBuffers, sel.buffers)
    /\ UNCHANGED <<mUnusedBuffers, mNumBuffers, metadata, mPendingContainer, producerBuffers,
                   lockedBuffers, saveBudget, arrived>>

\* lines 264-270: the container is assigned to mPendingContainer, still outside the
\* lock. When another thread has assigned the member since the test, the two writes
\* are a data race: the later one wins, or the program faults
savePackageStore ==
    /\ PoolRunning
    /\ UNCHANGED ctrlVars
    /\ saveCall.pc = "storing"
    /\ LET all == saveCall.allBuffers IN
        \/ /\ mPendingContainer' =
                    [frames |-> saveCall.buffers, isHdr |-> FALSE,
                     referenceTimestamp |->
                        metadata[all[ReferenceIdx(all, metadata, saveCall.referenceTimestamp)]].timestampNs]
           /\ saveCall' = [saveCall EXCEPT !.pc = "restoring", !.buffers = <<>>]
           /\ UNCHANGED crashed
        \/ /\ mPendingContainer # NoContainer
           /\ crashed' = TRUE
           /\ UNCHANGED <<mPendingContainer, saveCall>>
    /\ UNCHANGED <<mUnusedBuffers, mReadyBuffers, mNumBuffers, metadata, diskContainer,
                   producerBuffers, lockedBuffers, saveBudget, arrived>>

\* the end of save() appending allBuffers to the ready list instead of assigning it
RestoreReadyAppending(ready, all) == ready \o all

\* save, lines 290-295: under the lock, mReadyBuffers = allBuffers
RestoreReady(ready, all) == all

saveRestore ==
    /\ PoolRunning
    /\ UNCHANGED <<crashed, ctrlVars>>
    /\ saveCall.pc = "restoring"
    /\ mReadyBuffers' = RestoreReady(mReadyBuffers, saveCall.allBuffers)
    /\ saveCall' = NoSave
    /\ UNCHANGED <<mUnusedBuffers, mNumBuffers, metadata, mPendingContainer,
                   diskContainer, producerBuffers, lockedBuffers, saveBudget, arrived>>

clearPendingContainer ==
    /\ PoolRunning
    /\ UNCHANGED <<crashed, ctrlVars>>
    /\ mPendingContainer # NoContainer
    /\ mPendingContainer' = NoContainer
    /\ UNCHANGED <<mUnusedBuffers, mReadyBuffers, mNumBuffers, metadata, diskContainer,
                   producerBuffers, lockedBuffers, saveCall, saveBudget, arrived>>

\* consumeLatestBuffer: the last ready buffer moves into a new LockedBuffers; an empty
\* handle when the ready list is empty
ConsumeLatest(ready) ==
    IF ready = <<>> THEN [locked |-> <<>>, ready |-> ready]
    ELSE [locked |-> <<ready[Len(ready)]>>, ready |-> SubSeq(ready, 1, Len(ready) - 1)]

consumeLatestBuffer ==
    /\ PoolRunning
    /\ UNCHANGED <<crashed, ctrlVars>>
    /\ Len(lockedBuffers) < MaxHandles
    /\ LET r == ConsumeLatest(mReadyBuffers) IN
        /\ mReadyBuffers' = r.ready
        /\ lockedBuffers' = Append(lockedBuffers, r.locked)
    /\ UNCHANGED <<mUnusedBuffers, mNumBuffers, metadata, mPendingContainer,
                   diskContainer, producerBuffers, saveCall, saveBudget, arrived>>

\* consumeBuffer with the last match taken instead of the first
ConsumeBufferLastMatch(ready, meta, timestampNs) ==
    LET hits == {i \in DOMAIN ready : meta[ready[i]].timestampNs = timestampNs}
    IN  IF hits = {} THEN [locked |-> <<>>, ready |-> ready]
        ELSE LET it == CHOOSE i \in hits : \A j \in hits : i >= j
             IN  [locked |-> <<ready[it]>>, ready |-> RemoveAt(ready, it)]

\* consumeBuffer: the first ready buffer with the timestamp moves into a new
\* LockedBuffers; an empty handle when there is none
ConsumeBuffer(ready, meta, timestampNs) ==
    LET hits == {i \in DOMAIN ready : meta[ready[i]].timestampNs = timestampNs}
    IN  IF hits = {} THEN [locked |-> <<>>, ready |-> ready]
        ELSE LET it == CHOOSE i \in hits : \A j \in hits : i <= j
             IN  [locked |-> <<ready[it]>>, ready |-> RemoveAt(ready, it)]

consumeBuffer(timestampNs) ==
    /\ PoolRunning
    /\ UNCHANGED <<crashed, ctrlVars>>
    /\ Len(lockedBuffers) < MaxHandles
    /\ LET r == ConsumeBuffer(mReadyBuffers, metadata, timestampNs) IN
        /\ mReadyBuffers' = r.ready
        /\ lockedBuffers' = Append(lockedBuffers, r.locked)
    /\ UNCHANGED <<mUnusedBuffers, mNumBuffers, metadata, mPendingContainer,
                   diskContainer, producerBuffers, saveCall, saveBudget, arrived>>

\* consumeAllBuffers: the whole ready list moves into a new LockedBuffers
consumeAllBuffers ==
    /\ PoolRunning
    /\ UNCHANGED <<crashed, ctrlVars>>
    /\ Len(lockedBuffers) < MaxHandles
    /\ lockedBuffers' = Append(lockedBuffers, mReadyBuffers)
    /\ mReadyBuffers' = <<>>
    /\ UNCHANGED <<mUnusedBuffers, mNumBuffers, metadata, mPendingContainer,
                   diskContainer, producerBuffers, saveCall, saveBudget, arrived>>

\* ~LockedBuffers: the handle's buffers are returned to the ready list
dropLockedBuffers(h) ==
    /\ PoolRunning
    /\ UNCHANGED <<crashed, ctrlVars>>
    /\ h \in DOMAIN lockedBuffers
    /\ mReadyBuffers' = ReturnBuffers(mReadyBuffers, lockedBuffers[h])
    /\ lockedBuffers' = RemoveAt(lockedBuffers, h)
    /\ UNCHANGED <<mUnusedBuffers, mNumBuffers, metadata, mPendingContainer,
                   diskContainer, producerBuffers, saveCall, saveBudget, arrived>>


\* --------------------------------------------------------- CameraSession
SessionStates == {"CLOSED", "READY", "ACTIVE"}

\* an event of the queue with its data; an entry the poster did not put in the data
\* reads as 0, the empty string or FALSE (json11's null value)
Event(action) ==
    [eventAction |-> action, numImages |-> 0, state |-> "", iso |-> 0, exposureTime |-> <<>>,
     value |-> 0, setupForRawPreview |-> FALSE]

\* a call made by a step: a listener callback, an adapter call or a pool call
Call(name) == [call |-> name, n |-> 0, state |-> ""]

NoNativeObjects == [activeCamera |-> FALSE, captureSession |-> FALSE, captureRequests |-> FALSE]

\* pushEvent: the state carried by the SESSION_CHANGED event a callback thread is
\* pushing, once it has passed pushEvent's test of the session context; "" when none
NoAdapterSession ==
    [opened |-> FALSE, session |-> FALSE, repeating |-> FALSE, stateCallbacks |-> <<>>,
     hdrFrames |-> 0, hdrSequences |-> 0, afCaptures |-> 0, pushEvent |-> ""]

\* an entry of a capture request: set to a value, or absent
Entry(v) == [set |-> TRUE, value |-> v]

NoEntry == [set |-> FALSE, value |-> 0]

\* no repeat request: the session context holds a null repeatCaptureRequest
NoCaptureRequest ==
    [created |-> FALSE, aeMode |-> "", afMode |-> "", exposureCompensation |-> NoEntry,
     sensitivity |-> NoEntry, exposureTime |-> NoEntry, afTrigger |-> "",
     aePrecaptureTrigger |-> "", afRegions |-> "", aeRegions |-> "",
     previewTarget |-> FALSE]

\* createCaptureRequest: the request built from the zero-shutter-lag template
CreateCaptureRequest ==
    [created |-> TRUE, aeMode |-> "ON", afMode |-> "CONTINUOUS_PICTURE",
     exposureCompensation |-> NoEntry, sensitivity |-> NoEntry, exposureTime |-> NoEntry,
     afTrigger |-> "IDLE", aePrecaptureTrigger |-> "IDLE", afRegions |-> "cleared",
     aeRegions |-> "cleared", previewTarget |-> FALSE]

\* setupPreviewCaptureOutput, lines 389-392: the preview window is made a target of the
\* repeat request unless the session is set up for RAW preview
SetupPreviewCaptureOutput(request, setupForRawPreview) ==
    IF setupForRawPreview THEN request ELSE [request EXCEPT !.previewTarget = TRUE]

\* the state after the CameraSession constructor (lines 231-248), which leaves the
\* std::atomic<bool> mHdrCaptureSequenceCompleted with whatever value it happens to hold
\* the descriptions a camera may have, and the one taken where the focus calls play
\* no part
CameraDescriptions == [maxAfRegions : 0..MaxRegions, maxAeRegions : 0..MaxRegions]

DefaultDescription == [maxAfRegions |-> MaxRegions, maxAeRegions |-> MaxRegions]

CtrlInit ==
    /\ mSessionContext = FALSE
    /\ eventLoopQueue = <<>>
    /\ eventLoop = [running |-> FALSE, recvdStop |-> FALSE]
    /\ nativeObjects = NoNativeObjects
    /\ mState = "CLOSED"
    /\ mLastIso = 0
    /\ mHdrCaptureInProgress = FALSE
    /\ mHdrCaptureSequenceCompleted \in BOOLEAN  \* not initialised by the constructor
    /\ mHdrSequenceCompletedTimePoint = 0        \* the clock's epoch
    /\ mRequestedHdrCaptures = 0
    /\ mHdrCaptureOutputPath = 0
    /\ mHdrCaptureSettings = 0
    /\ mMode = "AUTO"
    /\ mExposureCompensation = 0
    /\ mUserIso = 100
    /\ mUserExposureTime = 10000000
    /\ repeatCaptureRequest = NoCaptureRequest
    /\ hostPc = "idle"
    /\ budget = [opens |-> MaxOpens, calls |-> MaxCalls, hdrCalls |-> MaxHdrCalls,
                 callbacks |-> MaxCallbacks, settings |-> MaxSettings, closes |-> MaxCloses,
                 total |-> MaxStimuli]
    /\ now = 2 * TickMs   \* the steady clock is well past its epoch
    /\ adapter = NoAdapterSession
    /\ hdrRequestList = <<>>
    /\ imageQueue = <<>>
    /\ listenerErrors = FALSE
    /\ hostSetupForRawPreview = FALSE
    /\ racingCalls = <<>>
    /\ mCameraDescription \in CameraDescriptions
    /\ emitted = <<>>

\* pushEvent: the event is dropped when there is no session context
PushEvent(queue, event) == IF mSessionContext THEN Append(queue, event) ELSE queue

\* pushEvent, lines 1130-1133: the warning logged for an event that is dropped
DropLog(event) ==
    IF mSessionContext THEN <<>>
    ELSE <<[Call("LOGW Failed to queue event") EXCEPT !.state = event.eventAction]>>

\* room in the queue for n more events (the queue itself is unbounded)
QueueRoom(n) == Len(eventLoopQueue) + n <= MaxQueue

\* ---- the surroundings' budget of calls and callbacks
Affordable(kind) == budget[kind] > 0 /\ budget.total > 0

Spend(kind) == [budget EXCEPT ![kind] = @ - 1, !.total = @ - 1]

\* ---- the host's calls

\* openCamera: a new session context, the event loop thread started, OPEN pushed
\* the event is pushed without the data built from setupForRawPreview (line 283)
openCamera(setupForRawPreview) ==
    /\ ~crashed /\ hostPc = "idle" /\ Affordable("opens")
    /\ budget' = Spend("opens")
    /\ IF mSessionContext
       THEN /\ emitted' = <<Call("LOGE Trying to open camera while already running")>>
            /\ UNCHANGED <<mSessionContext, eventLoopQueue, eventLoop, nativeObjects, mMode,
                           repeatCaptureRequest, hostSetupForRawPreview>>
       ELSE /\ mMode' = "AUTO"
            /\ mSessionContext' = TRUE
            /\ eventLoopQueue' = <<Event("ACTION_OPEN_CAMERA")>>
            /\ eventLoop' = [running |-> TRUE, recvdStop |-> FALSE]
            /\ nativeObjects' = NoNativeObjects
            /\ repeatCaptureRequest' = NoCaptureRequest
            /\ hostSetupForRawPreview' = setupForRawPreview
            /\ emitted' = <<>>
    /\ UNCHANGED <<mExposureCompensation, mUserIso, mUserExposureTime, listenerErrors, racingCalls, mCameraDescription,
                   poolVars, crashed, mState, mLastIso, hdrVars, hostPc, now, adapter,
                   hdrRequestList, imageQueue>>

\* closeCamera without its test of the session context
CloseCameraUnguarded(sessionContext, queue) ==
    [queue |-> Append(Append(queue, Event("ACTION_CLOSE_CAMERA")), Event("STOP")),
     hostPc |-> "joining"]

\* closeCamera, lines 286-296: it returns at once when there is no session context;
\* else CLOSE and STOP are pushed and the event loop thread is joined
CloseCamera(sessionContext, queue) ==
    IF ~sessionContext THEN [queue |-> queue, hostPc |-> "idle"]
    ELSE [queue |-> Append(Append(queue, Event("ACTION_CLOSE_CAMERA")), Event("STOP")),
          hostPc |-> "joining"]

\* closeCamera up to the join: CLOSE and STOP pushed
closeCamera ==
    /\ ~crashed /\ hostPc = "idle"
    /\ mSessionContext
    /\ QueueRoom(2)
    /\ eventLoopQueue' = CloseCamera(mSessionContext, eventLoopQueue).queue
    /\ hostPc' = CloseCamera(mSessionContext, eventLoopQueue).hostPc
    /\ emitted' = <<>>
    /\ UNCHANGED <<requestVars, ghostVars, poolVars, crashed, mSessionContext, eventLoop, nativeObjects, mState,
                   mLastIso, hdrVars, budget, now, adapter, hdrRequestList, imageQueue>>

\* closeCamera when there is no session context: it returns at once
closeCameraNoSession ==
    /\ ~crashed /\ hostPc = "idle" /\ Affordable("closes")
    /\ ~mSessionContext
    /\ budget' = Spend("closes")
    /\ eventLoopQueue' = CloseCamera(mSessionContext, eventLoopQueue).queue
    /\ hostPc' = CloseCamera(mSessionContext, eventLoopQueue).hostPc
    /\ emitted' = <<>>
    /\ UNCHANGED <<requestVars, ghostVars, poolVars, crashed, mSessionContext, eventLoop,
                   nativeObjects, mState, mLastIso, hdrVars, now, adapter,
                   hdrRequestList, imageQueue>>

\* closeCamera from the join on: the thread has ended, the context is released
closeCameraJoin ==
    /\ ~crashed /\ hostPc = "joining"
    /\ ~eventLoop.running
    /\ mSessionContext' = FALSE
    /\ eventLoopQueue' = <<>>
    /\ nativeObjects' = NoNativeObjects
    /\ repeatCaptureRequest' = NoCaptureRequest
    /\ hostPc' = "idle"
    /\ emitted' = <<>>
    /\ UNCHANGED <<mMode, mExposureCompensation, mUserIso, mUserExposureTime, ghostVars,
                   poolVars, crashed, eventLoop, mState, mLastIso, hdrVars, budget, now,
                   adapter, hdrRequestList, imageQueue>>

pauseCapture ==
    /\ ~crashed /\ hostPc = "idle" /\ Affordable("calls")
    /\ QueueRoom(1)
    /\ budget' = Spend("calls")
    /\ eventLoopQueue' = PushEvent(eventLoopQueue, Event("ACTION_PAUSE_CAPTURE"))
    /\ emitted' = DropLog(Event("ACTION_PAUSE_CAPTURE"))
    /\ UNCHANGED <<requestVars, ghostVars, poolVars, crashed, mSessionContext, eventLoop, nativeObjects, mState,
                   mLastIso, hdrVars, hostPc, now, adapter, hdrRequestList, imageQueue>>

resumeCapture ==
    /\ ~crashed /\ hostPc = "idle" /\ Affordable("calls")
    /\ QueueRoom(1)
    /\ budget' = Spend("calls")
    /\ eventLoopQueue' = PushEvent(eventLoopQueue, Event("ACTION_RESUME_CAPTURE"))
    /\ emitted' = DropLog(Event("ACTION_RESUME_CAPTURE"))
    /\ UNCHANGED <<requestVars, ghostVars, poolVars, crashed, mSessionContext, eventLoop, nativeObjects, mState,
                   mLastIso, hdrVars, hostPc, now, adapter, hdrRequestList, imageQueue>>

\* std::to_string of a non-negative integer: its decimal digits
RECURSIVE to_string(_)
to_string(n) == IF n < 10 THEN <<n>> ELSE Append(to_string(n \div 10), n % 10)

\* std::stol of a non-empty string of decimal digits
RECURSIVE stol(_)
stol(str) ==
    IF Len(str) = 1 THEN str[1]
    ELSE 10 * stol(SubSeq(str, 1, Len(str) - 1)) + str[Len(str)]

\* setManualExposure: the exposure time travels as a decimal string
setManualExposure(iso, exposureTime) ==
    /\ ~crashed /\ hostPc = "idle" /\ Affordable("settings")
    /\ QueueRoom(1)
    /\ budget' = Spend("settings")
    /\ eventLoopQueue' = PushEvent(eventLoopQueue, [Event("ACTION_SET_MANUAL_EXPOSURE") EXCEPT !.iso = iso, !.exposureTime = to_string(exposureTime)])
    /\ emitted' = DropLog(Event("ACTION_SET_MANUAL_EXPOSURE"))
    /\ UNCHANGED <<poolVars, crashed, mSessionContext, eventLoop, nativeObjects, mState,
                   mLastIso, hdrVars, requestVars, hostPc, now, adapter, hdrRequestList,
                   imageQueue, ghostVars>>

setAutoExposure ==
    /\ ~crashed /\ hostPc = "idle" /\ Affordable("settings")
    /\ QueueRoom(1)
    /\ budget' = Spend("settings")
    /\ eventLoopQueue' = PushEvent(eventLoopQueue, Event("ACTION_SET_AUTO_EXPOSURE"))
    /\ emitted' = DropLog(Event("ACTION_SET_AUTO_EXPOSURE"))
    /\ UNCHANGED <<poolVars, crashed, mSessionContext, eventLoop, nativeObjects, mState,
                   mLastIso, hdrVars, requestVars, hostPc, now, adapter, hdrRequestList,
                   imageQueue, ghostVars>>

\* setExposureCompensation. value: the float passed, in halves (0, 0.5, 1)
setExposureCompensation(value) ==
    /\ ~crashed /\ hostPc = "idle" /\ Affordable("settings")
    /\ QueueRoom(1)
    /\ budget' = Spend("settings")
    /\ eventLoopQueue' = PushEvent(eventLoopQueue, [Event("ACTION_SET_EXPOSURE_COMP_VALUE") EXCEPT !.value = value])
    /\ emitted' = DropLog(Event("ACTION_SET_EXPOSURE_COMP_VALUE"))
    /\ UNCHANGED <<poolVars, crashed, mSessionContext, eventLoop, nativeObjects, mState,
                   mLastIso, hdrVars, requestVars, hostPc, now, adapter, hdrRequestList,
                   imageQueue, ghostVars>>

\* setFocusPoint: the points passed play no part in what follows
setFocusPoint ==
    /\ ~crashed /\ hostPc = "idle" /\ Affordable("settings")
    /\ QueueRoom(1)
    /\ budget' = Spend("settings")
    /\ eventLoopQueue' = PushEvent(eventLoopQueue, Event("ACTION_SET_FOCUS_POINT"))
    /\ emitted' = DropLog(Event("ACTION_SET_FOCUS_POINT"))
    /\ UNCHANGED <<poolVars, crashed, mSessionContext, eventLoop, nativeObjects, mState,
                   mLastIso, hdrVars, requestVars, hostPc, now, adapter, hdrRequestList,
                   imageQueue, ghostVars>>

setAutoFocus ==
    /\ ~crashed /\ hostPc = "idle" /\ Affordable("settings")
    /\ QueueRoom(1)
    /\ budget' = Spend("settings")
    /\ eventLoopQueue' = PushEvent(eventLoopQueue, Event("ACTION_SET_AUTO_FOCUS"))
    /\ emitted' = DropLog(Event("ACTION_SET_AUTO_FOCUS"))
    /\ UNCHANGED <<poolVars, crashed, mSessionContext, eventLoop, nativeObjects, mState,
                   mLastIso, hdrVars, requestVars, hostPc, now, adapter, hdrRequestList,
                   imageQueue, ghostVars>>

\* captureHdr without its test of mHdrCaptureInProgress
CaptureHdrUnguarded(numImages, outputPath, settings) ==
    /\ mHdrCaptureSequenceCompleted' = FALSE
    /\ mHdrCaptureInProgress' = TRUE
    /\ mHdrCaptureOutputPath' = outputPath
    /\ mHdrCaptureSettings' = settings
    /\ eventLoopQueue' = PushEvent(eventLoopQueue,
                           [Event("ACTION_CAPTURE_HDR") EXCEPT !.numImages = numImages])
    /\ UNCHANGED <<mHdrSequenceCompletedTimePoint, mRequestedHdrCaptures>>

\* captureHdr: ignored, with a warning logged, while an HDR capture is in progress;
\* else the job is recorded and CAPTURE_HDR pushed
StoreHdrJob(numImages, outputPath, settings) ==
    /\ mHdrCaptureSequenceCompleted' = FALSE
    /\ mHdrCaptureInProgress' = TRUE
    /\ mHdrCaptureOutputPath' = outputPath
    /\ mHdrCaptureSettings' = settings
    /\ eventLoopQueue' = PushEvent(eventLoopQueue,
                            [Event("ACTION_CAPTURE_HDR") EXCEPT !.numImages = numImages])
    /\ UNCHANGED <<mHdrSequenceCompletedTimePoint, mRequestedHdrCaptures>>

CaptureHdr(numImages, outputPath, settings) ==
    IF mHdrCaptureInProgress
    THEN UNCHANGED <<hdrVars, eventLoopQueue>>
    ELSE StoreHdrJob(numImages, outputPath, settings)

\* every captureHdr call of the host names an output path and settings of its own
JobOfCall == MaxHdrCalls - budget.hdrCalls + 1

captureHdr(numImages, outputPath, settings) ==
    /\ ~crashed /\ hostPc = "idle" /\ Affordable("hdrCalls")
    /\ QueueRoom(1)
    /\ budget' = Spend("hdrCalls")
    /\ CaptureHdr(numImages, outputPath, settings)
    /\ emitted' = IF mHdrCaptureInProgress
                   THEN <<Call("LOGW HDR capture already in progress")>>
                   ELSE DropLog(Event("ACTION_CAPTURE_HDR"))
    /\ UNCHANGED <<requestVars, ghostVars, poolVars, crashed, mSessionContext, eventLoop, nativeObjects, mState,
                   mLastIso, hostPc, now, adapter, hdrRequestList, imageQueue>>

\* captureHdr called from several host threads, in the two steps other threads can
\* come between. Lines 350-353: the flag is read; the call returns when it is set
captureHdrTest(numImages, outputPath, settings) ==
    /\ ~crashed /\ hostPc = "idle" /\ Affordable("hdrCalls")
    /\ budget' = Spend("hdrCalls")
    /\ IF mHdrCaptureInProgress
       THEN /\ emitted' = <<Call("LOGW HDR capture already in progress")>>
            /\ UNCHANGED racingCalls
       ELSE /\ emitted' = <<>>
            /\ racingCalls' = Append(racingCalls, [numImages |-> numImages,
                                                   outputPath |-> outputPath,
                                                   settings |-> settings])
    /\ UNCHANGED <<requestVars, listenerErrors, hostSetupForRawPreview, mCameraDescription,
                   poolVars, crashed,
                   mSessionContext, eventLoopQueue, eventLoop, nativeObjects, mState,
                   mLastIso, hdrVars, hostPc, now, adapter, hdrRequestList, imageQueue>>

\* lines 355-368: the flags are written, path and settings stored and CAPTURE_HDR
\* pushed. The path and the settings are plain objects: when another call is at the
\* same lines their writes race, and the program may fault
captureHdrStore(i) ==
    /\ ~crashed
    /\ i \in DOMAIN racingCalls
    /\ QueueRoom(1)
    /\ racingCalls' = RemoveAt(racingCalls, i)
    /\ emitted' = DropLog(Event("ACTION_CAPTURE_HDR"))
    /\ \/ /\ StoreHdrJob(racingCalls[i].numImages, racingCalls[i].outputPath,
                         racingCalls[i].settings)
          /\ UNCHANGED crashed
       \/ /\ Len(racingCalls) > 1
          /\ crashed' = TRUE
          /\ UNCHANGED <<hdrVars, eventLoopQueue>>
    /\ UNCHANGED <<requestVars, listenerErrors, hostSetupForRawPreview, mCameraDescription,
                   poolVars,
                   mSessionContext, eventLoop, nativeObjects, mState, mLastIso, hostPc,
                   budget, now, adapter, hdrRequestList, imageQueue>>

\* ---- the camera adapter's side of the NDK calls

\* ACameraCaptureSession_setRepeatingRequest: fails on a null session; else the
\* session streams and, when it was idle, reports onActive
SetRepeatingRequest(ad, captureSession) ==
    IF ~captureSession THEN ad
    ELSE [ad EXCEPT !.repeating = TRUE,
                    !.stateCallbacks = IF ad.repeating THEN @ ELSE Append(@, "ACTIVE")]

\* ACameraCaptureSession_stopRepeating: the session goes idle and reports onReady
StopRepeating(ad, captureSession) ==
    IF ~captureSession \/ ~ad.repeating THEN ad
    ELSE [ad EXCEPT !.repeating = FALSE, !.stateCallbacks = Append(@, "READY")]

\* ACameraCaptureSession_close: the session ends and reports onClosed; frames not
\* yet delivered are gone with the image reader
CloseSession(ad, captureSession) ==
    IF ~captureSession THEN ad
    ELSE [ad EXCEPT !.session = FALSE, !.repeating = FALSE, !.hdrFrames = 0,
                    !.afCaptures = 0, !.stateCallbacks = Append(@, "CLOSED")]

\* ACameraCaptureSession_capture with n requests: n frames and one sequence callback
Capture(ad, captureSession, n) ==
    IF ~captureSession THEN ad
    ELSE [ad EXCEPT !.hdrFrames = @ + n, !.hdrSequences = @ + 1]

\* ACameraCaptureSession_abortCaptures: the repeating request is cancelled and the
\* captures in flight are discarded
AbortCaptures(ad, captureSession) ==
    IF ~captureSession THEN ad
    ELSE [ad EXCEPT !.repeating = FALSE, !.hdrFrames = 0, !.afCaptures = 0]

\* ACameraCaptureSession_capture with the one request of the focus protocol
CaptureTriggerAf(ad, captureSession) ==
    IF ~captureSession THEN ad ELSE [ad EXCEPT !.afCaptures = @ + 1]

\* the result of a focus-protocol capture is delivered; a session left with no
\* repeating request and no capture in flight reports onReady
CompleteTriggerAf(ad) ==
    [ad EXCEPT !.afCaptures = @ - 1,
               !.stateCallbacks = IF ad.afCaptures = 1 /\ ~ad.repeating /\ ad.session
                                  THEN Append(@, "READY") ELSE @]

\* ---- the event loop (doEventLoop, doProcessEvent)

\* the setting and capture actions of the external API
ApiActions ==
    {"ACTION_PAUSE_CAPTURE", "ACTION_RESUME_CAPTURE", "ACTION_SET_AUTO_EXPOSURE",
     "ACTION_SET_MANUAL_EXPOSURE", "ACTION_SET_EXPOSURE_COMP_VALUE",
     "ACTION_SET_FOCUS_POINT", "ACTION_SET_AUTO_FOCUS", "ACTION_CAPTURE_HDR"}

\* no event of an API call is waiting in the queue
NoApiEventWaiting(queue) ==
    \A i \in DOMAIN queue : queue[i].eventAction \notin ApiActions

Handling(action) ==
    /\ ~crashed
    /\ eventLoop.running
    /\ eventLoopQueue # <<>>
    /\ Head(eventLoopQueue).eventAction = action

\* doOnInternalError without its pushEvent
DoOnInternalErrorLogOnly(queue) == queue

\* doOnInternalError: CLOSE is pushed
DoOnInternalError(queue) == Append(queue, Event("ACTION_CLOSE_CAMERA"))

\* doOnInternalError, line 1101: the error is logged
InternalErrorLog == <<Call("LOGE Internal error")>>

\* doRepeatCapture: the repeat request is rewritten and set as the repeating request
DoRepeatCapture(ad, native) == SetRepeatingRequest(ad, native.captureSession)

\* doRepeatCapture, lines 610-631, with the sensitivity entry left as it is in AUTO mode
RepeatRequestKeepingSensitivity(request, mode, exposureCompensation, userIso, userExposureTime) ==
    IF ~request.created THEN request
    ELSE IF mode = "AUTO"
    THEN [request EXCEPT !.aeMode = "ON", !.afMode = "CONTINUOUS_PICTURE",
                         !.exposureCompensation = Entry(exposureCompensation),
                         !.exposureTime = NoEntry,
                         !.afTrigger = "cleared", !.afRegions = "cleared",
                         !.aeRegions = "cleared"]
    ELSE [request EXCEPT !.aeMode = "OFF", !.sensitivity = Entry(userIso),
                         !.exposureTime = Entry(userExposureTime),
                         !.exposureCompensation = NoEntry]

\* doRepeatCapture, lines 610-631: the entries written to the repeat request, by mode
RepeatRequest(request, mode, exposureCompensation, userIso, userExposureTime) ==
    IF ~request.created THEN request
    ELSE IF mode = "AUTO"
    THEN [request EXCEPT !.aeMode = "ON", !.afMode = "CONTINUOUS_PICTURE",
                         !.exposureCompensation = Entry(exposureCompensation),
                         !.sensitivity = NoEntry, !.exposureTime = NoEntry,
                         !.afTrigger = "cleared", !.afRegions = "cleared",
                         !.aeRegions = "cleared"]
    ELSE [request EXCEPT !.aeMode = "OFF", !.sensitivity = Entry(userIso),
                         !.exposureTime = Entry(userExposureTime),
                         !.exposureCompensation = NoEntry]

\* doOpenCamera. outcome: which NDK call fails, if any. setupForRawPreview is read
\* from the event's data (doProcessEvent, lines 1158-1163)
doOpenCamera(outcome) ==
    /\ Handling("ACTION_OPEN_CAMERA")
    /\ UNCHANGED <<poolVars, crashed, mSessionContext, eventLoop, mState, mLastIso, hdrVars,
                   mMode, mExposureCompensation, mUserIso, mUserExposureTime,
                   hostPc, budget, now, hdrRequestList, imageQueue, ghostVars>>
    /\ IF mState # "CLOSED"
       THEN /\ eventLoopQueue' = Tail(eventLoopQueue)
            /\ emitted' = <<Call("LOGE Trying to open camera that isn't closed")>>
            /\ UNCHANGED <<nativeObjects, adapter, repeatCaptureRequest>>
       ELSE CASE outcome = "openCameraFails" ->
                    /\ eventLoopQueue' = DoOnInternalError(Tail(eventLoopQueue))
                    /\ emitted' = InternalErrorLog
                    /\ UNCHANGED <<nativeObjects, adapter, repeatCaptureRequest>>
              [] outcome = "createCaptureSessionFails" ->
                    /\ nativeObjects' = [activeCamera |-> TRUE, captureSession |-> FALSE,
                                         captureRequests |-> TRUE]
                    /\ repeatCaptureRequest' =
                            SetupPreviewCaptureOutput(CreateCaptureRequest,
                                                      Head(eventLoopQueue).setupForRawPreview)
                    /\ adapter' = [adapter EXCEPT !.opened = TRUE]
                    /\ eventLoopQueue' = DoOnInternalError(Tail(eventLoopQueue))
                    /\ emitted' = InternalErrorLog
              [] outcome = "ok" ->
                    /\ nativeObjects' = [activeCamera |-> TRUE, captureSession |-> TRUE,
                                         captureRequests |-> TRUE]
                    /\ repeatCaptureRequest' =
                            RepeatRequest(
                                SetupPreviewCaptureOutput(CreateCaptureRequest,
                                    Head(eventLoopQueue).setupForRawPreview),
                                mMode, mExposureCompensation, mUserIso, mUserExposureTime)
                    /\ adapter' = DoRepeatCapture([adapter EXCEPT !.opened = TRUE, !.session = TRUE],
                                                  nativeObjects')
                    /\ eventLoopQueue' = Tail(eventLoopQueue)
                    /\ emitted' = <<Call("createCaptureSession"), Call("setRepeatingRequest")>>

\* doCloseCamera made to set the session state itself
doCloseCameraSettingState ==
    /\ Handling("ACTION_CLOSE_CAMERA")
    /\ eventLoopQueue' = Tail(eventLoopQueue)
    /\ adapter' = CloseSession(adapter, nativeObjects.captureSession)
    /\ mState' = "CLOSED"
    /\ nativeObjects' = [nativeObjects EXCEPT !.activeCamera = FALSE, !.captureSession = FALSE]
    /\ emitted' = IF nativeObjects.captureSession THEN <<Call("closeCaptureSession")>> ELSE <<>>
    /\ UNCHANGED <<requestVars, ghostVars, poolVars, crashed, mSessionContext, eventLoop, mLastIso, hdrVars,
                   hostPc, budget, now, hdrRequestList, imageQueue>>

\* doCloseCamera: the capture session, the camera and the image reader are released
doCloseCamera ==
    /\ Handling("ACTION_CLOSE_CAMERA")
    /\ eventLoopQueue' = Tail(eventLoopQueue)
    /\ adapter' = CloseSession(adapter, nativeObjects.captureSession)
    /\ nativeObjects' = [nativeObjects EXCEPT !.activeCamera = FALSE, !.captureSession = FALSE]
    /\ emitted' = IF nativeObjects.captureSession THEN <<Call("closeCaptureSession")>> ELSE <<>>
    /\ UNCHANGED <<requestVars, ghostVars, poolVars, crashed, mSessionContext, eventLoop, mState, mLastIso, hdrVars,
                   hostPc, budget, now, hdrRequestList, imageQueue>>

doPauseCapture ==
    /\ Handling("ACTION_PAUSE_CAPTURE")
    /\ eventLoopQueue' = Tail(eventLoopQueue)
    /\ IF mState # "ACTIVE"
       THEN /\ emitted' = <<Call("LOGW Cannot pause capture, invalid state")>>
            /\ UNCHANGED adapter
       ELSE /\ adapter' = StopRepeating(adapter, nativeObjects.captureSession)
            /\ emitted' = <<Call("stopRepeating")>>
    /\ UNCHANGED <<requestVars, ghostVars, poolVars, crashed, mSessionContext, eventLoop, nativeObjects, mState,
                   mLastIso, hdrVars, hostPc, budget, now, hdrRequestList, imageQueue>>

\* the test of line 652 turning a RESUME away in the CLOSED state only
ResumeInvalidStateClosedOnly(state) == state = "CLOSED"

\* doResumeCapture, line 652: the session is not READY
ResumeInvalidState(state) == state # "READY"

\* doResumeCapture; doRepeatCapture dereferences the repeat request, and a read
\* through a null request either faults or goes through
doResumeCapture ==
    /\ Handling("ACTION_RESUME_CAPTURE")
    /\ eventLoopQueue' = Tail(eventLoopQueue)
    /\ IF ResumeInvalidState(mState)
       THEN /\ emitted' = <<Call("LOGW Cannot resume capture, invalid state")>>
            /\ UNCHANGED <<adapter, crashed, repeatCaptureRequest>>
       ELSE \/ /\ ~nativeObjects.captureRequests
               /\ crashed' = TRUE
               /\ emitted' = <<>>
               /\ UNCHANGED <<adapter, repeatCaptureRequest>>
            \/ /\ adapter' = DoRepeatCapture(adapter, nativeObjects)
               /\ repeatCaptureRequest' =
                      RepeatRequest(repeatCaptureRequest, mMode, mExposureCompensation,
                                    mUserIso, mUserExposureTime)
               /\ emitted' = <<Call("setRepeatingRequest")>>
               /\ UNCHANGED crashed
    /\ UNCHANGED <<mMode, mExposureCompensation, mUserIso, mUserExposureTime, ghostVars,
                   poolVars, mSessionContext, eventLoop, nativeObjects, mState,
                   mLastIso, hdrVars, hostPc, budget, now, hdrRequestList, imageQueue>>

\* doCaptureHdr with the alternate request placed by the numImages it was called with
HdrRequestsAtHalfN(numImages) ==
    [i \in 1..(numImages + 1) |-> IF i - 1 = numImages \div 2 THEN "hdrCaptureRequests[1]"
                                  ELSE "hdrCaptureRequests[0]"]

\* doCaptureHdr, lines 792-801: numImages + 1 requests, all the base request but the
\* one at index numImages / 2 (of the incremented numImages), 0-based
HdrRequests(numImages) ==
    LET n == numImages + 1
    IN  [i \in 1..n |-> IF i - 1 = n \div 2 THEN "hdrCaptureRequests[1]"
                        ELSE "hdrCaptureRequests[0]"]

\* doCaptureHdr; it dereferences the HDR requests, which exist once doOpenCamera has
\* created them. A read through a null request either faults or goes through
doCaptureHdr ==
    /\ Handling("ACTION_CAPTURE_HDR")
    /\ eventLoopQueue' = Tail(eventLoopQueue)
    /\ LET numImages == Head(eventLoopQueue).numImages IN
       IF numImages < 1
       THEN /\ emitted' = <<Call("LOGE Invalid HDR capture requested")>>
            /\ UNCHANGED <<crashed, mRequestedHdrCaptures, hdrRequestList, adapter>>
       ELSE \/ /\ ~nativeObjects.captureRequests
               /\ crashed' = TRUE
               /\ emitted' = <<>>
               /\ UNCHANGED <<mRequestedHdrCaptures, hdrRequestList, adapter>>
            \/ /\ mRequestedHdrCaptures' = numImages + 1
               /\ hdrRequestList' = HdrRequests(numImages)
               /\ adapter' = Capture(adapter, nativeObjects.captureSession, Len(hdrRequestList'))
               /\ emitted' = <<[Call("capture") EXCEPT !.n = Len(hdrRequestList')]>>
               /\ UNCHANGED crashed
    /\ UNCHANGED <<requestVars, ghostVars, poolVars, mSessionContext, eventLoop, nativeObjects, mState, mLastIso,
                   mHdrCaptureInProgress, mHdrCaptureSequenceCompleted,
                   mHdrSequenceCompletedTimePoint, mHdrCaptureOutputPath,
                   mHdrCaptureSettings, hostPc, budget, now, imageQueue>>

\* the timeout test with twice the limit
HdrTimedOutLate(sequenceCompleted, timePoint, time) ==
    sequenceCompleted /\ time - timePoint > 2 * HdrTimeoutMs

\* doAttemptSaveHdrData, line 824: the sequence completed too long ago
HdrTimedOut(sequenceCompleted, timePoint, time) ==
    sequenceCompleted /\ time - timePoint > HdrTimeoutMs

\* doAttemptSaveHdrData, line 836: not all the requested HDR buffers are ready
HdrIncomplete(hdrBufferCount, requested) == hdrBufferCount < requested

\* the success path with the listener told of completion before the pool is drained
HdrSuccessCallsCompletedFirst ==
    <<[Call("onCameraHdrImageCaptureProgress") EXCEPT !.n = 100],
      Call("onCameraHdrImageCaptureCompleted"),
      Call("saveHdr")>>

\* doAttemptSaveHdrData, lines 841-849: the calls of the success path, in order
HdrSuccessCalls ==
    <<[Call("onCameraHdrImageCaptureProgress") EXCEPT !.n = 100],
      Call("saveHdr"),
      Call("onCameraHdrImageCaptureCompleted")>>

\* doAttemptSaveHdrData, lines 824-831: the timeout path
HdrTimeoutCalls == <<Call("onCameraHdrImageCaptureFailed")>>

doAttemptSaveHdrData ==
    /\ Handling("EVENT_SAVE_HDR_DATA")
    /\ eventLoopQueue' = Tail(eventLoopQueue)
    /\ LET hdrBufferCount == NumHdrBuffers(mReadyBuffers, metadata) IN
       IF HdrTimedOut(mHdrCaptureSequenceCompleted, mHdrSequenceCompletedTimePoint, now)
       THEN /\ mHdrCaptureInProgress' = FALSE
            /\ mHdrCaptureSequenceCompleted' = FALSE
            /\ emitted' = HdrTimeoutCalls
            /\ UNCHANGED <<mUnusedBuffers, mReadyBuffers, mPendingContainer, diskContainer,
                           arrived>>
       ELSE IF HdrIncomplete(hdrBufferCount, mRequestedHdrCaptures)
       THEN /\ emitted' = <<[Call("onCameraHdrImageCaptureProgress") EXCEPT
                                !.n = (hdrBufferCount * 100) \div mRequestedHdrCaptures]>>
            /\ UNCHANGED <<mHdrCaptureInProgress, mHdrCaptureSequenceCompleted,
                           mUnusedBuffers, mReadyBuffers, mPendingContainer, diskContainer,
                           arrived>>
       ELSE LET r == SaveHdr(mUnusedBuffers, mReadyBuffers, metadata,
                             mPendingContainer, diskContainer) IN
            /\ mHdrCaptureInProgress' = FALSE
            /\ mUnusedBuffers' = r.unused
            /\ mReadyBuffers' = r.ready
            /\ mPendingContainer' = r.pending
            /\ diskContainer' = r.disk
            /\ arrived' = Recycle(arrived, HdrOf(mReadyBuffers, metadata))
            /\ emitted' = HdrSuccessCalls
            /\ UNCHANGED mHdrCaptureSequenceCompleted
    /\ UNCHANGED <<requestVars, ghostVars, mNumBuffers, metadata, producerBuffers, lockedBuffers, saveCall,
                   saveBudget, crashed,
                   mSessionContext, eventLoop, nativeObjects, mState, mLastIso,
                   mHdrSequenceCompletedTimePoint, mRequestedHdrCaptures,
                   mHdrCaptureOutputPath, mHdrCaptureSettings, hostPc, budget, now,
                   adapter, hdrRequestList, imageQueue>>

doOnCameraSessionStateChanged ==
    /\ Handling("EVENT_CAMERA_SESSION_CHANGED")
    /\ eventLoopQueue' = Tail(eventLoopQueue)
    /\ mState' = Head(eventLoopQueue).state
    /\ emitted' = <<[Call("onCameraStateChanged") EXCEPT !.state = mState']>>
    /\ UNCHANGED <<requestVars, ghostVars, poolVars, crashed, mSessionContext, eventLoop, nativeObjects, mLastIso,
                   hdrVars, hostPc, budget, now, adapter, hdrRequestList, imageQueue>>

doOnCameraError ==
    /\ Handling("EVENT_CAMERA_ERROR")
    /\ eventLoopQueue' = Tail(eventLoopQueue)
    /\ emitted' = <<Call("onCameraError")>>
    /\ listenerErrors' = (listenerErrors \/ NoApiEventWaiting(eventLoopQueue'))
    /\ UNCHANGED <<requestVars, hostSetupForRawPreview, racingCalls, mCameraDescription, poolVars, crashed, mSessionContext, eventLoop, nativeObjects, mState,
                   mLastIso, hdrVars, hostPc, budget, now, adapter, hdrRequestList,
                   imageQueue>>

doOnCameraExposureStatusChanged ==
    /\ Handling("EVENT_CAMERA_EXPOSURE_STATUS_CHANGED")
    /\ eventLoopQueue' = Tail(eventLoopQueue)
    /\ emitted' = <<[Call("onCameraExposureStatus") EXCEPT !.n = Head(eventLoopQueue).iso]>>
    /\ UNCHANGED <<requestVars, ghostVars, poolVars, crashed, mSessionContext, eventLoop, nativeObjects, mState,
                   mLastIso, hdrVars, hostPc, budget, now, adapter, hdrRequestList,
                   imageQueue>>

\* doSetAutoExposure: in the ACTIVE state the mode goes to AUTO, the compensation to 0,
\* and the repeat request is rewritten and set again
doSetAutoExposure ==
    /\ Handling("ACTION_SET_AUTO_EXPOSURE")
    /\ eventLoopQueue' = Tail(eventLoopQueue)
    /\ IF mState # "ACTIVE"
       THEN /\ emitted' = <<>>
            /\ UNCHANGED <<adapter, crashed, requestVars>>
       ELSE \/ /\ ~nativeObjects.captureRequests
               /\ crashed' = TRUE
               /\ emitted' = <<>>
               /\ UNCHANGED <<adapter, requestVars>>
            \/ /\ mMode' = "AUTO"
               /\ mExposureCompensation' = 0
               /\ repeatCaptureRequest' =
                      RepeatRequest(repeatCaptureRequest, mMode', mExposureCompensation',
                                    mUserIso, mUserExposureTime)
               /\ adapter' = DoRepeatCapture(adapter, nativeObjects)
               /\ emitted' = <<Call("setRepeatingRequest")>>
               /\ UNCHANGED <<crashed, mUserIso, mUserExposureTime>>
    /\ UNCHANGED <<poolVars, mSessionContext, eventLoop, nativeObjects, mState, mLastIso,
                   hdrVars, hostPc, budget, now, hdrRequestList, imageQueue, ghostVars>>

\* doSetManualExposure, with the exposure time parsed from the event's string
\* (doProcessEvent, lines 1190-1196)
doSetManualExposure ==
    /\ Handling("ACTION_SET_MANUAL_EXPOSURE")
    /\ eventLoopQueue' = Tail(eventLoopQueue)
    /\ IF mState # "ACTIVE"
       THEN /\ emitted' = <<Call("LOGW Cannot set manual exposure, invalid state")>>
            /\ UNCHANGED <<adapter, crashed, requestVars>>
       ELSE \/ /\ ~nativeObjects.captureRequests
               /\ crashed' = TRUE
               /\ emitted' = <<>>
               /\ UNCHANGED <<adapter, requestVars>>
            \/ /\ mMode' = "MANUAL"
               /\ mExposureCompensation' = 0
               /\ mUserIso' = Head(eventLoopQueue).iso
               /\ mUserExposureTime' = stol(Head(eventLoopQueue).exposureTime)
               /\ repeatCaptureRequest' =
                      RepeatRequest(repeatCaptureRequest, mMode', mExposureCompensation',
                                    mUserIso', mUserExposureTime')
               /\ adapter' = DoRepeatCapture(adapter, nativeObjects)
               /\ emitted' = <<Call("setRepeatingRequest")>>
               /\ UNCHANGED crashed
    /\ UNCHANGED <<poolVars, mSessionContext, eventLoop, nativeObjects, mState, mLastIso,
                   hdrVars, hostPc, budget, now, hdrRequestList, imageQueue, ghostVars>>

\* doSetExposureCompensation, lines 853-856: the value, clamped to 0..1, is scaled to
\* the camera's compensation range and truncated
ExposureCompOf(value) == value * MaxComp - MaxComp

\* doSetExposureCompensation: whatever the session state, a changed compensation is
\* written to the repeat request, which is set again
doSetExposureCompensation ==
    /\ Handling("ACTION_SET_EXPOSURE_COMP_VALUE")
    /\ eventLoopQueue' = Tail(eventLoopQueue)
    /\ IF mExposureCompensation = ExposureCompOf(Head(eventLoopQueue).value)
       THEN /\ emitted' = <<>>
            /\ UNCHANGED <<adapter, crashed, requestVars>>
       ELSE \/ /\ ~nativeObjects.captureRequests
               /\ crashed' = TRUE
               /\ emitted' = <<>>
               /\ UNCHANGED <<adapter, requestVars>>
            \/ /\ mExposureCompensation' = ExposureCompOf(Head(eventLoopQueue).value)
               /\ repeatCaptureRequest' =
                      RepeatRequest(repeatCaptureRequest, mMode, mExposureCompensation',
                                    mUserIso, mUserExposureTime)
               /\ adapter' = DoRepeatCapture(adapter, nativeObjects)
               /\ emitted' = <<Call("setRepeatingRequest")>>
               /\ UNCHANGED <<crashed, mMode, mUserIso, mUserExposureTime>>
    /\ UNCHANGED <<poolVars, mSessionContext, eventLoop, nativeObjects, mState, mLastIso,
                   hdrVars, hostPc, budget, now, hdrRequestList, imageQueue, ghostVars>>

\* doSetFocusPoint, lines 699-751: the entries of the focus protocol
FocusRequest(request, maxAeRegions) ==
    IF ~request.created THEN request
    ELSE IF maxAeRegions > 0
    THEN [request EXCEPT !.afMode = "AUTO", !.afTrigger = "START", !.afRegions = "set",
                         !.aeRegions = "set", !.aePrecaptureTrigger = "START"]
    ELSE [request EXCEPT !.afMode = "AUTO", !.afTrigger = "START", !.afRegions = "set"]

\* the test of line 692 letting a description through unless its count is negative
ZeroAfRegionsStrict(description) == description.maxAfRegions < 0

\* doSetFocusPoint, line 692: the camera has no AF region
ZeroAfRegions(description) == description.maxAfRegions <= 0

\* doSetFocusPoint: the captures are aborted and the repeat request, with the focus
\* entries, is captured once. outcome: whether the capture call fails
doSetFocusPoint(outcome) ==
    /\ Handling("ACTION_SET_FOCUS_POINT")
    /\ IF mState # "ACTIVE"
       THEN /\ eventLoopQueue' = Tail(eventLoopQueue)
            /\ emitted' = <<Call("LOGW Cannot set focus, invalid state")>>
            /\ UNCHANGED <<adapter, crashed, requestVars>>
       ELSE IF ZeroAfRegions(mCameraDescription)
       THEN /\ eventLoopQueue' = Tail(eventLoopQueue)
            /\ emitted' = <<Call("LOGI Can't set focus, zero AF regions")>>
            /\ UNCHANGED <<adapter, crashed, requestVars>>
       ELSE \/ /\ ~nativeObjects.captureRequests
               /\ crashed' = TRUE
               /\ eventLoopQueue' = Tail(eventLoopQueue)
               /\ emitted' = <<>>
               /\ UNCHANGED <<adapter, requestVars>>
            \/ /\ repeatCaptureRequest' = FocusRequest(repeatCaptureRequest,
                                                       mCameraDescription.maxAeRegions)
               /\ IF outcome = "captureFails" \/ ~nativeObjects.captureSession
                  THEN /\ adapter' = AbortCaptures(adapter, nativeObjects.captureSession)
                       /\ eventLoopQueue' = DoOnInternalError(Tail(eventLoopQueue))
                       /\ emitted' = <<Call("abortCaptures")>> \o InternalErrorLog
                  ELSE /\ adapter' = CaptureTriggerAf(
                                        AbortCaptures(adapter, nativeObjects.captureSession),
                                        nativeObjects.captureSession)
                       /\ eventLoopQueue' = Tail(eventLoopQueue)
                       /\ emitted' = <<Call("abortCaptures"), Call("capture")>>
               /\ UNCHANGED <<crashed, mMode, mExposureCompensation, mUserIso,
                              mUserExposureTime>>
    /\ UNCHANGED <<poolVars, mSessionContext, eventLoop, nativeObjects, mState, mLastIso,
                   hdrVars, hostPc, budget, now, hdrRequestList, imageQueue, ghostVars>>

doSetAutoFocus ==
    /\ Handling("ACTION_SET_AUTO_FOCUS")
    /\ eventLoopQueue' = Tail(eventLoopQueue)
    /\ IF mState # "ACTIVE"
       THEN /\ emitted' = <<Call("LOGW Cannot set auto focus, invalid state")>>
            /\ UNCHANGED <<adapter, crashed, requestVars>>
       ELSE \/ /\ ~nativeObjects.captureRequests
               /\ crashed' = TRUE
               /\ emitted' = <<>>
               /\ UNCHANGED <<adapter, requestVars>>
            \/ /\ repeatCaptureRequest' =
                      RepeatRequest(repeatCaptureRequest, mMode, mExposureCompensation,
                                    mUserIso, mUserExposureTime)
               /\ adapter' = DoRepeatCapture(adapter, nativeObjects)
               /\ emitted' = <<Call("setRepeatingRequest")>>
               /\ UNCHANGED <<crashed, mMode, mExposureCompensation, mUserIso,
                              mUserExposureTime>>
    /\ UNCHANGED <<poolVars, mSessionContext, eventLoop, nativeObjects, mState, mLastIso,
                   hdrVars, hostPc, budget, now, hdrRequestList, imageQueue, ghostVars>>

\* doOnTriggerAfCompleted leaving the AE precapture trigger as the focus protocol set it
TriggerAfCompletedKeepingAeTrigger(request) ==
    IF ~request.created THEN request
    ELSE [request EXCEPT !.afMode = "AUTO", !.afTrigger = "IDLE"]

\* doOnTriggerAfCompleted, lines 1106-1112: the entries written once focus has triggered
TriggerAfCompletedRequest(request) ==
    IF ~request.created THEN request
    ELSE [request EXCEPT !.afMode = "AUTO", !.aePrecaptureTrigger = "IDLE",
                         !.afTrigger = "IDLE"]

\* doOnTriggerAfCompleted: the repeat request is set as the repeating request again;
\* CLOSE is pushed when that fails
doOnTriggerAfCompleted ==
    /\ Handling("EVENT_CAMERA_TRIGGER_AF_COMPLETED")
    /\ \/ /\ ~nativeObjects.captureRequests
          /\ crashed' = TRUE
          /\ eventLoopQueue' = Tail(eventLoopQueue)
          /\ emitted' = <<>>
          /\ UNCHANGED <<adapter, requestVars>>
       \/ /\ repeatCaptureRequest' = TriggerAfCompletedRequest(repeatCaptureRequest)
          /\ adapter' = SetRepeatingRequest(adapter, nativeObjects.captureSession)
          /\ IF nativeObjects.captureSession
             THEN /\ eventLoopQueue' = Tail(eventLoopQueue)
                  /\ emitted' = <<Call("setRepeatingRequest")>>
             ELSE /\ eventLoopQueue' = PushEvent(Tail(eventLoopQueue),
                                                 Event("ACTION_CLOSE_CAMERA"))
                  /\ emitted' = <<Call("LOGE Failed set AF repeat capture")>>
          /\ UNCHANGED <<crashed, mMode, mExposureCompensation, mUserIso, mUserExposureTime>>
    /\ UNCHANGED <<poolVars, mSessionContext, eventLoop, nativeObjects, mState, mLastIso,
                   hdrVars, hostPc, budget, now, hdrRequestList, imageQueue, ghostVars>>

doOnCameraDisconnected ==
    /\ Handling("EVENT_CAMERA_DISCONNECTED")
    /\ eventLoopQueue' = Tail(eventLoopQueue)
    /\ emitted' = <<Call("onCameraDisconnected")>>
    /\ listenerErrors' = (listenerErrors \/ NoApiEventWaiting(eventLoopQueue'))
    /\ UNCHANGED <<poolVars, crashed, mSessionContext, eventLoop, nativeObjects, mState,
                   mLastIso, hdrVars, requestVars, hostPc, budget, now, adapter,
                   hdrRequestList, imageQueue, hostSetupForRawPreview, racingCalls,
                   mCameraDescription>>

\* doEventLoop, lines 1296-1298: STOP is noted, not processed
recvStop ==
    /\ Handling("STOP")
    /\ eventLoopQueue' = Tail(eventLoopQueue)
    /\ eventLoop' = [eventLoop EXCEPT !.recvdStop = TRUE]
    /\ emitted' = <<>>
    /\ UNCHANGED <<requestVars, ghostVars, poolVars, crashed, mSessionContext, nativeObjects, mState, mLastIso,
                   hdrVars, hostPc, budget, now, adapter, hdrRequestList, imageQueue>>

\* the loop's exit test without the session state
LoopMayStopOnStop(recvdStop, state) == recvdStop

\* doEventLoop, line 1290: the test made when the timed wait found no event
LoopMayStop(recvdStop, state) == recvdStop /\ state = "CLOSED"

\* doEventLoop, lines 1286-1294: the timed wait found the queue empty
waitTimedOut ==
    /\ ~crashed
    /\ eventLoop.running
    /\ eventLoopQueue = <<>>
    /\ eventLoop' = [eventLoop EXCEPT !.running = ~LoopMayStop(eventLoop.recvdStop, mState)]
    /\ emitted' = <<>>
    /\ UNCHANGED <<requestVars, ghostVars, poolVars, crashed, mSessionContext, eventLoopQueue, nativeObjects, mState,
                   mLastIso, hdrVars, hostPc, budget, now, adapter, hdrRequestList,
                   imageQueue>>

\* ---- the adapter's callbacks, on its own threads

\* onCameraSessionStateActive / Ready / Closed: SESSION_CHANGED is pushed
onCameraSessionState ==
    /\ ~crashed
    /\ adapter.stateCallbacks # <<>>
    /\ mSessionContext => QueueRoom(1)
    /\ eventLoopQueue' = PushEvent(eventLoopQueue,
            [Event("EVENT_CAMERA_SESSION_CHANGED") EXCEPT !.state = Head(adapter.stateCallbacks)])
    /\ adapter' = [adapter EXCEPT !.stateCallbacks = Tail(@)]
    /\ emitted' = DropLog(Event("EVENT_CAMERA_SESSION_CHANGED"))
    /\ UNCHANGED <<requestVars, ghostVars, poolVars, crashed, mSessionContext, eventLoop, nativeObjects, mState,
                   mLastIso, hdrVars, hostPc, budget, now, hdrRequestList, imageQueue>>

\* the same callback as other threads see it, in the two steps of pushEvent they can
\* come between. Lines 1130-1133: the session context is tested, and the event dropped
\* when there is none
onCameraSessionStateTest ==
    /\ ~crashed
    /\ adapter.stateCallbacks # <<>>
    /\ adapter.pushEvent = ""
    /\ adapter' = [adapter EXCEPT !.stateCallbacks = Tail(@),
                                  !.pushEvent = IF mSessionContext
                                                THEN Head(adapter.stateCallbacks) ELSE ""]
    /\ emitted' = DropLog(Event("EVENT_CAMERA_SESSION_CHANGED"))
    /\ UNCHANGED <<requestVars, ghostVars, poolVars, crashed, mSessionContext, eventLoopQueue,
                   eventLoop, nativeObjects, mState, mLastIso, hdrVars, hostPc, budget, now,
                   hdrRequestList, imageQueue>>

\* lines 1135-1137: the event is enqueued through mSessionContext, which is read again.
\* When closeCamera has released the context since the test, the read is of a null
\* pointer and the queue is destroyed
onCameraSessionStateEnqueue ==
    /\ ~crashed
    /\ adapter.pushEvent # ""
    /\ mSessionContext => QueueRoom(1)
    /\ adapter' = [adapter EXCEPT !.pushEvent = ""]
    /\ IF mSessionContext
       THEN /\ eventLoopQueue' = Append(eventLoopQueue,
                    [Event("EVENT_CAMERA_SESSION_CHANGED") EXCEPT !.state = adapter.pushEvent])
            /\ UNCHANGED crashed
       ELSE /\ crashed' = TRUE
            /\ UNCHANGED eventLoopQueue
    /\ emitted' = <<>>
    /\ UNCHANGED <<requestVars, ghostVars, poolVars, mSessionContext, eventLoop,
                   nativeObjects, mState, mLastIso, hdrVars, hostPc, budget, now,
                   hdrRequestList, imageQueue>>

\* onCameraError: EVENT_CAMERA_ERROR is pushed
onCameraError ==
    /\ ~crashed
    /\ adapter.opened /\ Affordable("callbacks")
    /\ mSessionContext => QueueRoom(1)
    /\ budget' = Spend("callbacks")
    /\ eventLoopQueue' = PushEvent(eventLoopQueue, Event("EVENT_CAMERA_ERROR"))
    /\ emitted' = DropLog(Event("EVENT_CAMERA_ERROR"))
    /\ UNCHANGED <<requestVars, ghostVars, poolVars, crashed, mSessionContext, eventLoop, nativeObjects, mState,
                   mLastIso, hdrVars, hostPc, now, adapter, hdrRequestList, imageQueue>>

\* onCameraDisconnected: EVENT_CAMERA_DISCONNECTED is pushed
onCameraDisconnected ==
    /\ ~crashed
    /\ adapter.opened /\ Affordable("callbacks")
    /\ mSessionContext => QueueRoom(1)
    /\ budget' = Spend("callbacks")
    /\ eventLoopQueue' = PushEvent(eventLoopQueue, Event("EVENT_CAMERA_DISCONNECTED"))
    /\ emitted' = DropLog(Event("EVENT_CAMERA_DISCONNECTED"))
    /\ UNCHANGED <<poolVars, crashed, mSessionContext, eventLoop, nativeObjects, mState,
                   mLastIso, hdrVars, requestVars, hostPc, now, adapter, hdrRequestList,
                   imageQueue, ghostVars>>

\* onCameraCaptureCompleted with the TRIGGER_AF context: TRIGGER_AF_COMPLETED is pushed;
\* then the exposure is compared as for every capture result
onTriggerAfCaptureCompleted(iso) ==
    /\ ~crashed
    /\ adapter.afCaptures > 0
    /\ mSessionContext => QueueRoom(2)
    /\ adapter' = CompleteTriggerAf(adapter)
    /\ IF iso # mLastIso
       THEN /\ eventLoopQueue' =
                    PushEvent(PushEvent(eventLoopQueue, Event("EVENT_CAMERA_TRIGGER_AF_COMPLETED")),
                              [Event("EVENT_CAMERA_EXPOSURE_STATUS_CHANGED") EXCEPT !.iso = iso])
            /\ mLastIso' = iso
            /\ emitted' = DropLog(Event("EVENT_CAMERA_TRIGGER_AF_COMPLETED"))
                           \o DropLog(Event("EVENT_CAMERA_EXPOSURE_STATUS_CHANGED"))
       ELSE /\ eventLoopQueue' =
                    PushEvent(eventLoopQueue, Event("EVENT_CAMERA_TRIGGER_AF_COMPLETED"))
            /\ emitted' = DropLog(Event("EVENT_CAMERA_TRIGGER_AF_COMPLETED"))
            /\ UNCHANGED mLastIso
    /\ UNCHANGED <<poolVars, crashed, mSessionContext, eventLoop, nativeObjects, mState,
                   hdrVars, requestVars, hostPc, budget, now, hdrRequestList, imageQueue,
                   ghostVars>>

\* onCameraCaptureFailed with the TRIGGER_AF context: the failure of the
\* focus-protocol capture is logged, and nothing else is done
onTriggerAfCaptureFailed ==
    /\ ~crashed
    /\ adapter.afCaptures > 0
    /\ adapter' = CompleteTriggerAf(adapter)
    /\ emitted' = <<Call("LOGE AF_TRIGGER failed")>>
    /\ UNCHANGED <<poolVars, crashed, mSessionContext, eventLoopQueue, eventLoop,
                   nativeObjects, mState, mLastIso, hdrVars, requestVars, hostPc, budget,
                   now, hdrRequestList, imageQueue, ghostVars>>

\* onCameraCaptureCompleted with the REPEAT or HDR_CAPTURE context: the result is
\* handed to the image consumer; then the exposure read from it is compared with the
\* last one and EXPOSURE_STATUS_CHANGED pushed when it differs
onCameraCaptureCompleted(iso) ==
    /\ ~crashed
    /\ adapter.opened /\ Affordable("callbacks")
    /\ mSessionContext => QueueRoom(1)
    /\ budget' = Spend("callbacks")
    /\ IF iso # mLastIso
       THEN /\ eventLoopQueue' = PushEvent(eventLoopQueue,
                    [Event("EVENT_CAMERA_EXPOSURE_STATUS_CHANGED") EXCEPT !.iso = iso])
            /\ mLastIso' = iso
            /\ emitted' = <<Call("queueMetadata")>>
                           \o DropLog(Event("EVENT_CAMERA_EXPOSURE_STATUS_CHANGED"))
       ELSE /\ emitted' = <<Call("queueMetadata")>>
            /\ UNCHANGED <<eventLoopQueue, mLastIso>>
    /\ UNCHANGED <<requestVars, ghostVars, poolVars, crashed, mSessionContext, eventLoop, nativeObjects, mState,
                   hdrVars, hostPc, now, adapter, hdrRequestList, imageQueue>>

\* onCameraCaptureSequenceCompleted / Aborted with the HDR_CAPTURE context: the time
\* is taken and the flag set
SequenceEnded ==
    /\ mHdrSequenceCompletedTimePoint' = now
    /\ mHdrCaptureSequenceCompleted' = TRUE

onCameraCaptureSequenceCompleted ==
    /\ ~crashed
    /\ adapter.hdrSequences > 0
    /\ adapter' = [adapter EXCEPT !.hdrSequences = @ - 1]
    /\ SequenceEnded
    /\ emitted' = <<>>
    /\ UNCHANGED <<requestVars, ghostVars, poolVars, crashed, mSessionContext, eventLoopQueue, eventLoop,
                   nativeObjects, mState, mLastIso, mHdrCaptureInProgress,
                   mRequestedHdrCaptures, mHdrCaptureOutputPath, mHdrCaptureSettings,
                   hostPc, budget, now, hdrRequestList, imageQueue>>

onCameraCaptureSequenceAborted ==
    /\ ~crashed
    /\ adapter.hdrSequences > 0
    /\ ~adapter.session
    /\ adapter' = [adapter EXCEPT !.hdrSequences = @ - 1]
    /\ SequenceEnded
    /\ emitted' = <<>>
    /\ UNCHANGED <<requestVars, ghostVars, poolVars, crashed, mSessionContext, eventLoopQueue, eventLoop,
                   nativeObjects, mState, mLastIso, mHdrCaptureInProgress,
                   mRequestedHdrCaptures, mHdrCaptureOutputPath, mHdrCaptureSettings,
                   hostPc, budget, now, hdrRequestList, imageQueue>>

\* onRawImageAvailable: the image reader is asked for its latest image and the images
\* acquired are handed to the image consumer, then
\* SAVE_HDR_DATA is pushed when an HDR capture is in progress. type: the raw type the
\* acquired image will be tagged with, "NONE" when no image could be acquired
onRawImageAvailable(type) ==
    /\ ~crashed
    /\ CASE type = "HDR" -> adapter.hdrFrames > 0 /\ UNCHANGED budget
         [] type = "ZSL" -> /\ adapter.repeating /\ Affordable("callbacks")
                            /\ budget' = Spend("callbacks")
         [] type = "NONE" -> /\ adapter.opened /\ Affordable("callbacks")
                             /\ budget' = Spend("callbacks")
    /\ type # "NONE" => Len(imageQueue) < MaxBuffers
    /\ (mSessionContext /\ mHdrCaptureInProgress) => QueueRoom(1)
    /\ imageQueue' = IF type = "NONE" THEN imageQueue ELSE Append(imageQueue, type)
    /\ adapter' = IF type = "HDR" THEN [adapter EXCEPT !.hdrFrames = @ - 1] ELSE adapter
    /\ eventLoopQueue' = IF mHdrCaptureInProgress
                         THEN PushEvent(eventLoopQueue, Event("EVENT_SAVE_HDR_DATA"))
                         ELSE eventLoopQueue
    /\ emitted' = <<Call("AImageReader_acquireLatestImage")>>
                   \o (IF type = "NONE" THEN <<>> ELSE <<Call("queueImage")>>)
                   \o (IF mHdrCaptureInProgress THEN DropLog(Event("EVENT_SAVE_HDR_DATA"))
                       ELSE <<>>)
    /\ UNCHANGED <<requestVars, ghostVars, poolVars, crashed, mSessionContext, eventLoop, nativeObjects, mState,
                   mLastIso, hdrVars, hostPc, now, hdrRequestList>>

\* the image consumer's thread: an image is copied into a buffer of the pool, tagged
\* and made ready; it is dropped when the pool hands out no buffer
copyImage ==
    /\ ~crashed
    /\ imageQueue # <<>>
    /\ imageQueue' = Tail(imageQueue)
    /\ LET r == DequeueUnused(mUnusedBuffers, mReadyBuffers) IN
        /\ mUnusedBuffers' = r.unused
        /\ IF r.buffer = Null
           THEN UNCHANGED <<mReadyBuffers, metadata, arrived>>
           ELSE /\ mReadyBuffers' = EnqueueReady(r.ready, r.buffer)
                /\ arrived' = Append(Recycle(arrived, {r.buffer}), r.buffer)
                /\ metadata' = [metadata EXCEPT ![r.buffer] =
                                    [timestampNs |-> 1, rawType |-> Head(imageQueue)]]
    /\ emitted' = <<>>
    /\ UNCHANGED <<requestVars, ghostVars, mNumBuffers, mPendingContainer, diskContainer, producerBuffers,
                   lockedBuffers, saveCall, saveBudget, crashed, mSessionContext, eventLoopQueue,
                   eventLoop, nativeObjects, mState, mLastIso, hdrVars, hostPc, budget, now,
                   adapter, hdrRequestList>>

\* the clock. The only reading of it that matters is the time since the HDR sequence
\* completed, so it is advanced while that wait is on and not yet timed out
tick ==
    /\ ~crashed
    /\ mHdrCaptureSequenceCompleted
    /\ ~HdrTimedOut(mHdrCaptureSequenceCompleted, mHdrSequenceCompletedTimePoint, now)
    /\ now' = now + TickMs
    /\ emitted' = <<>>
    /\ UNCHANGED <<requestVars, ghostVars, poolVars, crashed, mSessionContext, eventLoopQueue, eventLoop,
                   nativeObjects, mState, mLastIso, hdrVars, hostPc, budget, adapter,
                   hdrRequestList, imageQueue>>

\* the pool as the host initialised it before the first openCamera: MaxBuffers
\* buffers added, nothing else done
PoolReady ==
    /\ mUnusedBuffers = [i \in 1..MaxBuffers |-> i]
    /\ mReadyBuffers = <<>>
    /\ mNumBuffers = MaxBuffers
    /\ metadata = [b \in 1..MaxBuffers |-> [timestampNs |-> 0, rawType |-> "ZSL"]]
    /\ mPendingContainer = NoContainer
    /\ diskContainer = NoContainer
    /\ producerBuffers = {}
    /\ lockedBuffers = <<>>
    /\ saveCall = NoSave
    /\ saveBudget = [save |-> MaxSaveCalls, saveHdr |-> MaxSaveCalls]
    /\ arrived = <<>>

Init ==
    /\ PoolReady /\ crashed = FALSE /\ CtrlInit
    /\ mCameraDescription = DefaultDescription

Next ==
    \/ openCamera(FALSE)
    \/ closeCamera
    \/ closeCameraNoSession
    \/ closeCameraJoin
    \/ pauseCapture
    \/ resumeCapture
    \/ \E numImages \in 0..MaxHdrImages : captureHdr(numImages, JobOfCall, JobOfCall)
    \/ \E outcome \in {"ok", "openCameraFails", "createCaptureSessionFails"} :
            doOpenCamera(outcome)
    \/ doCloseCamera
    \/ doPauseCapture
    \/ doResumeCapture
    \/ doCaptureHdr
    \/ doAttemptSaveHdrData
    \/ doOnCameraSessionStateChanged
    \/ doOnCameraError
    \/ doOnCameraExposureStatusChanged
    \/ recvStop
    \/ waitTimedOut
    \/ onCameraSessionState
    \/ onCameraError
    \/ \E iso \in 1..MaxIso : onCameraCaptureCompleted(iso)
    \/ onCameraCaptureSequenceCompleted
    \/ onCameraCaptureSequenceAborted
    \/ \E type \in {"HDR", "ZSL", "NONE"} : onRawImageAvailable(type)
    \/ copyImage
    \/ tick

Spec == Init /\ [][Next]_vars

\* the controller with its exposure and focus calls, and no HDR capture
RequestNext ==
    \/ \E setupForRawPreview \in BOOLEAN : openCamera(setupForRawPreview)
    \/ closeCamera
    \/ closeCameraNoSession
    \/ closeCameraJoin
    \/ pauseCapture
    \/ resumeCapture
    \/ \E iso \in 1..MaxUserIso, exposureTime \in 1..MaxUserExposureTime :
            setManualExposure(iso, exposureTime)
    \/ setAutoExposure
    \/ \E value \in 0..2 : setExposureCompensation(value)
    \/ setFocusPoint
    \/ setAutoFocus
    \/ \E outcome \in {"ok", "openCameraFails", "createCaptureSessionFails"} :
            doOpenCamera(outcome)
    \/ doCloseCamera
    \/ doPauseCapture
    \/ doResumeCapture
    \/ doSetAutoExposure
    \/ doSetManualExposure
    \/ doSetExposureCompensation
    \/ \E outcome \in {"ok", "captureFails"} : doSetFocusPoint(outcome)
    \/ doSetAutoFocus
    \/ doOnTriggerAfCompleted
    \/ doOnCameraSessionStateChanged
    \/ doOnCameraError
    \/ doOnCameraDisconnected
    \/ doOnCameraExposureStatusChanged
    \/ recvStop
    \/ waitTimedOut
    \/ onCameraSessionState
    \/ onCameraError
    \/ onCameraDisconnected
    \/ \E iso \in 0..MaxIso : onTriggerAfCaptureCompleted(iso)

\* the HDR job plays no part: its flag is taken as clear
RequestSpecInit ==
    PoolReady /\ crashed = FALSE /\ CtrlInit /\ ~mHdrCaptureSequenceCompleted

RequestSpec == RequestSpecInit /\ [][RequestNext]_vars

\* the pool used from the producer thread, consumer threads, and the threads calling
\* saveHdr and save
PoolNext ==
    \/ addBuffer
    \/ dequeueUnusedBuffer
    \/ \E b \in producerBuffers, ts \in Timestamps, type \in RawTypes :
            enqueueReadyBuffer(b, ts, type)
    \/ \E b \in producerBuffers : discardBuffer(b)
    \/ consumeLatestBuffer
    \/ \E ts \in Timestamps : consumeBuffer(ts)
    \/ consumeAllBuffers
    \/ \E h \in DOMAIN lockedBuffers : dropLockedBuffers(h)
    \/ saveHdr
    \/ \E ts \in Timestamps, n \in 0..MaxSaveBuffers : saveBegin(ts, n)
    \/ savePackage
    \/ saveRestore
    \/ clearPendingContainer

\* the controller is constructed and never used
PoolSpecInit ==
    /\ PoolInit /\ crashed = FALSE /\ CtrlInit /\ ~mHdrCaptureSequenceCompleted
    /\ mCameraDescription = DefaultDescription

PoolSpec == PoolSpecInit /\ [][PoolNext]_vars

\* save() on one thread with saveHdr, clearPendingContainer and the producer on others
PendingRaceNext ==
    \/ addBuffer
    \/ dequeueUnusedBuffer
    \/ \E b \in producerBuffers, ts \in Timestamps, type \in RawTypes :
            enqueueReadyBuffer(b, ts, type)
    \/ saveHdr
    \/ \E ts \in Timestamps, n \in 0..MaxSaveBuffers : saveBegin(ts, n)
    \/ savePackageTest
    \/ savePackageStore
    \/ saveRestore
    \/ clearPendingContainer

PendingRaceSpec == PoolSpecInit /\ [][PendingRaceNext]_vars

\* the event loop thread handling the event at the head of the queue, for the events
\* an HDR capture may meet (doProcessEvent)
DoProcessEvent ==
    \/ \E outcome \in {"ok", "openCameraFails", "createCaptureSessionFails"} :
            doOpenCamera(outcome)
    \/ doCloseCamera
    \/ doPauseCapture
    \/ doCaptureHdr
    \/ doAttemptSaveHdrData
    \/ doOnCameraSessionStateChanged

\* the host opening the camera, pausing and capturing HDR, with the event loop, the
\* adapter's callbacks, the image consumer and the clock
HdrNext ==
    \/ openCamera(FALSE)
    \/ pauseCapture
    \/ \E numImages \in 0..MaxHdrImages : captureHdr(numImages, JobOfCall, JobOfCall)
    \/ DoProcessEvent
    \/ waitTimedOut
    \/ onCameraSessionState
    \/ onCameraCaptureSequenceCompleted
    \/ \E type \in {"HDR", "ZSL", "NONE"} : onRawImageAvailable(type)
    \/ copyImage
    \/ tick

\* the threads that keep running whatever the host does: the event loop thread
\* handles a waiting event, the adapter delivers the callbacks and the frames it owes,
\* the image consumer copies a queued image, and time passes. The host's calls and the
\* arrival of further images are under no such condition
HdrFairness ==
    /\ WF_vars(DoProcessEvent)
    /\ WF_vars(onCameraSessionState)
    /\ WF_vars(onCameraCaptureSequenceCompleted)
    /\ WF_vars(onRawImageAvailable("HDR"))
    /\ WF_vars(copyImage)
    /\ WF_vars(tick)

HdrLiveSpec == Init /\ [][HdrNext]_vars /\ HdrFairness

\* captureHdr called from several host threads at once, with the event loop and the
\* adapter's callbacks, up to the arrival of the first image
RaceNext ==
    \/ openCamera(FALSE)
    \/ \E numImages \in 0..MaxHdrImages : captureHdrTest(numImages, JobOfCall, JobOfCall)
    \/ \E i \in DOMAIN racingCalls : captureHdrStore(i)
    \/ \E outcome \in {"ok", "openCameraFails", "createCaptureSessionFails"} :
            doOpenCamera(outcome)
    \/ doCloseCamera
    \/ doCaptureHdr
    \/ doOnCameraSessionStateChanged
    \/ waitTimedOut
    \/ onCameraSessionState
    \/ onCameraCaptureSequenceCompleted
    \/ tick

RaceSpec == Init /\ [][RaceNext]_vars

\* open and close with the adapter's state callbacks running pushEvent on their own
\* threads
PushRaceNext ==
    \/ openCamera(FALSE)
    \/ closeCamera
    \/ closeCameraJoin
    \/ \E outcome \in {"ok", "openCameraFails", "createCaptureSessionFails"} :
            doOpenCamera(outcome)
    \/ doCloseCamera
    \/ doOnCameraSessionStateChanged
    \/ recvStop
    \/ waitTimedOut
    \/ onCameraSessionStateTest
    \/ onCameraSessionStateEnqueue

PushRaceSpec == Init /\ [][PushRaceNext]_vars

\* the event loop thread handling the event at the head of the queue, for the events
\* a focus request may meet (doProcessEvent)
DoProcessFocusEvent ==
    \/ \E outcome \in {"ok", "openCameraFails", "createCaptureSessionFails"} :
            doOpenCamera(outcome)
    \/ doCloseCamera
    \/ \E outcome \in {"ok", "captureFails"} : doSetFocusPoint(outcome)
    \/ doOnTriggerAfCompleted
    \/ doOnCameraSessionStateChanged
    \/ doOnCameraExposureStatusChanged

\* the host opening the camera and setting focus points, with the event loop and the
\* adapter's callbacks; the one-shot capture of the focus protocol completes or fails
FocusNext ==
    \/ openCamera(FALSE)
    \/ setFocusPoint
    \/ DoProcessFocusEvent
    \/ waitTimedOut
    \/ onCameraSessionState
    \/ \E iso \in 0..MaxIso : onTriggerAfCaptureCompleted(iso)
    \/ onTriggerAfCaptureFailed

\* the event loop thread handles a waiting event, and the adapter delivers the state
\* callbacks it owes and the outcome of a capture in flight, one way or the other
FocusFairness ==
    /\ WF_vars(DoProcessFocusEvent)
    /\ WF_vars(onCameraSessionState)
    /\ WF_vars((\E iso \in 0..MaxIso : onTriggerAfCaptureCompleted(iso))
               \/ onTriggerAfCaptureFailed)

FocusLiveSpec == Init /\ [][FocusNext]_vars /\ FocusFairness

\* ---------------------------------------------------------------- properties

\* the step taken is the event loop handling the event at the head of the queue
Handles(action) ==
    /\ Handling(action)
    /\ \/ eventLoopQueue' = Tail(eventLoopQueue)
       \/ eventLoopQueue' = DoOnInternalError(Tail(eventLoopQueue))

\* the names of the calls a step made
Calls(step) == {step[i].call : i \in DOMAIN step}

\* C1: with no save() in flight, every buffer added with addBuffer is in exactly one
\* of free, ready or loaned (held by the producer or by a LockedBuffers handle), and
\* |free| + |ready| + |loaned| is the number of buffers added
C1_BuffersConserved ==
    saveCall.pc = "idle" =>
        /\ \A b \in 1..mNumBuffers : Occurrences(b) = 1
        /\ Len(mUnusedBuffers) + Len(mReadyBuffers) + Len(Flatten(lockedBuffers))
           + Cardinality(producerBuffers) = mNumBuffers

\* C2: for an HDR job whose capture of N+1 >= 2 requests has been submitted,
\* onCameraHdrImageCaptureCompleted is fired by the handling of SAVE_HDR_DATA only if
\* the sequence-complete signal has arrived and the HDR-tagged ready buffers are at
\* least N+1
C2_CompletedOnlyAfterSequence ==
    [][(Handles("EVENT_SAVE_HDR_DATA")
        /\ mRequestedHdrCaptures >= 2
        /\ Len(hdrRequestList) = mRequestedHdrCaptures
        /\ "onCameraHdrImageCaptureCompleted" \in Calls(emitted'))
       => (mHdrCaptureSequenceCompleted
           /\ NumHdrBuffers(mReadyBuffers, metadata) >= mRequestedHdrCaptures)]_vars

\* C3 (as the code has it): the request list submitted for an HDR job with requested
\* count N >= 1 has length N+1 and holds the alternate-exposure request at 0-based
\* index floor((N+1)/2) and the base-exposure request at every other position
C3_AlternateAtHalfOfLength ==
    [][(Handles("ACTION_CAPTURE_HDR") /\ Head(eventLoopQueue).numImages >= 1 /\ ~crashed')
       => LET N == Head(eventLoopQueue).numImages IN
          /\ Len(hdrRequestList') = N + 1
          /\ \A i \in 0..N :
                hdrRequestList'[i + 1] = IF i = (N + 1) \div 2 THEN "hdrCaptureRequests[1]"
                                         ELSE "hdrCaptureRequests[0]"
          /\ emitted' = <<[Call("capture") EXCEPT !.n = N + 1]>>]_vars

\* C3 as the claim states it: the alternate-exposure request is at 0-based index
\* floor(N/2) of the N+1 requests
C3_AlternateAtHalfOfN ==
    [][(Handles("ACTION_CAPTURE_HDR") /\ Head(eventLoopQueue).numImages >= 1 /\ ~crashed')
       => LET N == Head(eventLoopQueue).numImages IN
          /\ Len(hdrRequestList') = N + 1
          /\ \A i \in 0..N :
                hdrRequestList'[i + 1] = IF i = N \div 2 THEN "hdrCaptureRequests[1]"
                                         ELSE "hdrCaptureRequests[0]"]_vars

\* an HDR job with N = 1 has been submitted: two requests, the alternate one last
C3_OddCountSubmitted ==
    /\ hdrRequestList = <<"hdrCaptureRequests[0]", "hdrCaptureRequests[1]">>
    /\ mRequestedHdrCaptures = 2
    /\ adapter.hdrSequences > 0

\* C4: a captureHdr call made while an HDR job is in progress posts no event and
\* leaves the job's requested count, output path, settings, sequence-complete flag and
\* in-progress flag unchanged
C4_CaptureHdrIgnoredInProgress ==
    [][(budget'.hdrCalls < budget.hdrCalls /\ mHdrCaptureInProgress)
       => UNCHANGED <<hdrVars, eventLoopQueue>>]_vars

\* two captureHdr calls have been made and the job of the first is still the one in
\* progress
C4_SecondCallIgnored ==
    /\ budget.hdrCalls <= MaxHdrCalls - 2
    /\ mHdrCaptureInProgress
    /\ mHdrCaptureOutputPath = 1
    /\ mHdrCaptureSettings = 1

\* C5: captureHdr with N < 1 emits no event and starts no job: no CAPTURE_HDR event
\* for a count below 1 is ever in the queue
C5_InvalidCountRejected ==
    \A i \in DOMAIN eventLoopQueue :
        eventLoopQueue[i].eventAction = "ACTION_CAPTURE_HDR" => eventLoopQueue[i].numImages >= 1

\* C6: SAVE_HDR_DATA handled with the sequence-complete flag set and more than 5000 ms
\* gone since: onCameraHdrImageCaptureFailed is fired and nothing else, the job is no
\* longer in progress, the pool is untouched (no container), and the session state,
\* the adapter's session and its repeating request are unchanged
C6_TimeoutFailsJob ==
    [][(Handles("EVENT_SAVE_HDR_DATA")
        /\ mHdrCaptureSequenceCompleted
        /\ now - mHdrSequenceCompletedTimePoint > HdrTimeoutMs)
       => /\ emitted' = <<Call("onCameraHdrImageCaptureFailed")>>
          /\ ~mHdrCaptureInProgress'
          /\ UNCHANGED <<poolVars, mState, adapter, nativeObjects>>]_vars

\* an HDR job has just been failed by the timeout
C6_TimeoutFired ==
    /\ emitted = <<Call("onCameraHdrImageCaptureFailed")>>
    /\ now - mHdrSequenceCompletedTimePoint > HdrTimeoutMs
    /\ ~mHdrCaptureInProgress

\* C7: SAVE_HDR_DATA handled, not timed out, with at least the requested number of
\* HDR-tagged ready buffers: onCameraHdrImageCaptureProgress(100), then the drain of
\* the HDR buffers into a container, then onCameraHdrImageCaptureCompleted; afterwards
\* the job is not in progress and no ready buffer is tagged HDR
C7_SuccessPathOrder ==
    [][(Handles("EVENT_SAVE_HDR_DATA")
        /\ ~(mHdrCaptureSequenceCompleted
             /\ now - mHdrSequenceCompletedTimePoint > HdrTimeoutMs)
        /\ NumHdrBuffers(mReadyBuffers, metadata) >= mRequestedHdrCaptures)
       => /\ emitted' = <<[Call("onCameraHdrImageCaptureProgress") EXCEPT !.n = 100],
                          Call("saveHdr"),
                          Call("onCameraHdrImageCaptureCompleted")>>
          /\ ~mHdrCaptureInProgress'
          /\ NumHdrBuffers(mReadyBuffers', metadata') = 0]_vars

\* an HDR job of N >= 1 has just completed with its N+1 frames in the container
C7_HdrDrained ==
    /\ "onCameraHdrImageCaptureCompleted" \in Calls(emitted)
    /\ mRequestedHdrCaptures >= 2
    /\ mPendingContainer.isHdr
    /\ Len(mPendingContainer.frames) = mRequestedHdrCaptures
    /\ NumHdrBuffers(mReadyBuffers, metadata) = 0

\* C8: with no session context (closeCamera has returned, or openCamera was never
\* called) a step, an adapter callback among them, makes no call but to the log (no
\* listener, adapter, image reader, image consumer or pool call), queues and handles
\* no event, and leaves the session state, the native objects and the adapter's
\* device and session as they are
C8_NoEffectWithoutSession ==
    [][(~mSessionContext /\ ~mSessionContext')
       => /\ Calls(emitted') \subseteq {"LOGW Failed to queue event",
                                       "LOGW HDR capture already in progress"}
          /\ UNCHANGED <<eventLoopQueue, eventLoop, nativeObjects, mState>>
          /\ adapter'.opened = adapter.opened
          /\ adapter'.session = adapter.session
          /\ adapter'.repeating = adapter.repeating
          /\ adapter'.hdrSequences <= adapter.hdrSequences
          /\ adapter'.hdrFrames <= adapter.hdrFrames]_vars

\* C9: closeCamera returns: while it waits in the join, the event loop thread has
\* not died in a handler
C9_JoinNotLeftWaiting == hostPc = "joining" => ~crashed

\* C10: the event loop exits only at a wake that found the queue empty, with STOP
\* received and the session state CLOSED
C10_LoopExitsOnlyWhenClosed ==
    [][(eventLoop.running /\ ~eventLoop'.running)
       => (eventLoopQueue = <<>> /\ eventLoop.recvdStop /\ mState = "CLOSED")]_vars

\* the loop has exited for a session that was created and closed, all the state
\* callbacks of the adapter having been delivered and handled
C10_LoopExited ==
    /\ ~eventLoop.running
    /\ eventLoop.recvdStop
    /\ hostPc = "joining"
    /\ adapter.opened /\ ~adapter.session
    /\ adapter.stateCallbacks = <<>>
    /\ eventLoopQueue = <<>>

\* C11: while the session is open, handling the adapter's error or disconnection
\* event leaves a CLOSE in the queue (so that the listener is later told of the
\* CLOSED state)
C11_ErrorTriggersClose ==
    [][((Handles("EVENT_CAMERA_ERROR") \/ Handles("EVENT_CAMERA_DISCONNECTED"))
        /\ nativeObjects.captureSession)
       => Event("ACTION_CLOSE_CAMERA") \in Range(eventLoopQueue')]_vars

\* C12: once the listener was told of a device error, handling a call of the external
\* API makes no adapter call and leaves the adapter and the repeat request as they are
C12_NoOpAfterError ==
    [][(listenerErrors /\ \E action \in ApiActions : Handles(action))
       => /\ adapter' = adapter
          /\ repeatCaptureRequest' = repeatCaptureRequest
          /\ Calls(emitted') \cap {"stopRepeating", "setRepeatingRequest", "abortCaptures",
                                   "capture"} = {}]_vars

\* C13: when a handler's exception reaches the event loop's catch clause (the
\* internal error is logged), the thread goes on: the loop is still running, the
\* event is consumed and a CLOSE is posted behind the events already waiting
C13_ExceptionCaughtCloseQueued ==
    [][("LOGE Internal error" \in Calls(emitted'))
       => /\ eventLoop.running /\ eventLoop' = eventLoop
          /\ ~crashed'
          /\ eventLoopQueue' = Append(Tail(eventLoopQueue), Event("ACTION_CLOSE_CAMERA"))]_vars

C13_HandlerThrew ==
    /\ "LOGE Internal error" \in Calls(emitted)
    /\ eventLoop.running
    /\ eventLoopQueue # <<>>
    /\ eventLoopQueue[Len(eventLoopQueue)].eventAction = "ACTION_CLOSE_CAMERA"

\* C14: when the OPEN handler fails, the loop calls onCameraError on the listener and
\* posts a CLOSE, and the session state stays CLOSED
C14_OpenFailureReported ==
    [][(Handles("ACTION_OPEN_CAMERA") /\ mState = "CLOSED" /\ ~nativeObjects'.captureSession)
       => /\ "onCameraError" \in Calls(emitted')
          /\ Event("ACTION_CLOSE_CAMERA") \in Range(eventLoopQueue')
          /\ mState' = "CLOSED"]_vars

\* C15: whenever the session state is ACTIVE, and no state change of the adapter is
\* still on its way to the controller, a repeating request is in flight at the adapter
C15_ActiveHasRepeatingRequest ==
    (/\ ~crashed
     /\ mSessionContext
     /\ mState = "ACTIVE"
     /\ adapter.stateCallbacks = <<>>
     /\ \A i \in DOMAIN eventLoopQueue :
            eventLoopQueue[i].eventAction # "EVENT_CAMERA_SESSION_CHANGED")
    => adapter.repeating

\* C16: the session state changes only in the step that handles a SESSION_CHANGED
\* event, and then to the state that event carries
C16_StateChangesOnlyOnSessionChanged ==
    [][mState' # mState
       => /\ Handling("EVENT_CAMERA_SESSION_CHANGED")
          /\ eventLoopQueue' = Tail(eventLoopQueue)
          /\ mState' = Head(eventLoopQueue).state]_vars

C16_StateChanged ==
    /\ mState = "READY"
    /\ emitted = <<[Call("onCameraStateChanged") EXCEPT !.state = "READY"]>>
    /\ budget.calls < MaxCalls

\* C18: handling setAutoExposure in the ACTIVE state of an opened camera (its repeat
\* request exists) leaves the repeat request with AE on, AF continuous-picture,
\* compensation 0, and ISO, exposure time, AF trigger, AF regions and AE regions
\* cleared, whatever manual exposure was set before
C18_AutoExposureRestoresRequest ==
    [][(Handles("ACTION_SET_AUTO_EXPOSURE") /\ mState = "ACTIVE"
        /\ repeatCaptureRequest.created)
       => /\ repeatCaptureRequest'.aeMode = "ON"
          /\ repeatCaptureRequest'.afMode = "CONTINUOUS_PICTURE"
          /\ repeatCaptureRequest'.exposureCompensation = Entry(0)
          /\ repeatCaptureRequest'.sensitivity = NoEntry
          /\ repeatCaptureRequest'.exposureTime = NoEntry
          /\ repeatCaptureRequest'.afTrigger = "cleared"
          /\ repeatCaptureRequest'.afRegions = "cleared"
          /\ repeatCaptureRequest'.aeRegions = "cleared"]_vars

\* one openCamera and three exposure calls were made, a manual exposure was taken
\* over in the ACTIVE state and the mode is AUTO again
C18_AutoAfterManual ==
    /\ budget.opens = MaxOpens - 1 /\ budget.settings = MaxSettings - 3 /\ budget.total = 0
    /\ mUserIso \in 1..MaxUserIso
    /\ mMode = "AUTO"
    /\ mState = "ACTIVE"
    /\ emitted = <<Call("setRepeatingRequest")>>
    /\ repeatCaptureRequest.sensitivity = NoEntry
    /\ repeatCaptureRequest.aeMode = "ON"

\* C19: after a successful open the preview surface is a target of the repeat request
\* exactly when openCamera was called with setupForRawPreview = false
C19_PreviewTargetIffNotRawPreview ==
    (nativeObjects.captureSession /\ repeatCaptureRequest.created)
    => (repeatCaptureRequest.previewTarget <=> ~hostSetupForRawPreview)

\* C20: closeCamera returns with the session context released, and a closeCamera
\* called with no session context posts no event, joins no thread, makes no adapter
\* call and changes nothing of the controller
C20_CloseIdempotent ==
    [][/\ (hostPc = "joining" /\ hostPc' = "idle") => ~mSessionContext'
       /\ (budget'.closes < budget.closes)
          => /\ ~mSessionContext
             /\ emitted' = <<>>
             /\ UNCHANGED <<mSessionContext, eventLoopQueue, eventLoop, hostPc, adapter,
                            nativeObjects, mState, requestVars, hdrVars>>]_vars

\* a closeCamera found no session after an openCamera was called: the session that
\* call opened has been closed by an earlier closeCamera
C20_ClosedTwice ==
    /\ budget.closes < MaxCloses
    /\ budget.opens < MaxOpens
    /\ ~mSessionContext
    /\ hostPc = "idle"
    /\ eventLoopQueue = <<>>

\* the ready buffers in the order they arrived
ReadyByArrival == Filter(arrived, Range(mReadyBuffers))

\* C21: dequeueUnusedBuffer hands out a buffer of the free queue whenever that queue is
\* not empty; when it is empty and the ready list is not, it removes and hands out the
\* ready buffer that arrived earliest, also after loaned buffers have been returned to
\* the ready list
C21_DequeueOldestReady ==
    [][\A b \in producerBuffers' \ producerBuffers :
          IF mUnusedBuffers # <<>>
          THEN b \in Range(mUnusedBuffers) /\ mReadyBuffers' = mReadyBuffers
          ELSE /\ mReadyBuffers # <<>>
               /\ b = Head(ReadyByArrival)
               /\ mReadyBuffers' = Filter(mReadyBuffers, Range(mReadyBuffers) \ {b})]_vars

\* C22: consumeLatestBuffer removes the ready buffer that arrived most recently and
\* hands it out in a LockedBuffers, after any sequence of enqueueReadyBuffer, consume
\* and LockedBuffers-drop operations; on an empty ready list it hands out an empty
\* handle and changes nothing
C22_ConsumeLatestNewest ==
    [][(/\ lockedBuffers' = Append(lockedBuffers, ConsumeLatest(mReadyBuffers).locked)
        /\ mReadyBuffers' = ConsumeLatest(mReadyBuffers).ready)
       => IF mReadyBuffers = <<>>
          THEN /\ lockedBuffers'[Len(lockedBuffers')] = <<>>
               /\ UNCHANGED <<mReadyBuffers, mUnusedBuffers>>
          ELSE /\ lockedBuffers'[Len(lockedBuffers')] = <<ReadyByArrival[Len(ReadyByArrival)]>>
               /\ UNCHANGED mUnusedBuffers]_vars

\* C23: consumeBuffer(ts) removes exactly one buffer, the first in ready order whose
\* timestamp is ts, and hands it out in a LockedBuffers, leaving every other ready
\* buffer in place; with no match it hands out an empty LockedBuffers and leaves ready
\* and free as they were, and dropping such an empty handle changes nothing
C23_ConsumeByTimestampFrame ==
    [][/\ \A ts \in Timestamps :
            LET r == ConsumeBuffer(mReadyBuffers, metadata, ts)
                hits == {i \in DOMAIN mReadyBuffers :
                            metadata[mReadyBuffers[i]].timestampNs = ts}
            IN  (lockedBuffers' = Append(lockedBuffers, r.locked) /\ mReadyBuffers' = r.ready)
                => /\ UNCHANGED mUnusedBuffers
                   /\ IF hits = {}
                      THEN /\ lockedBuffers'[Len(lockedBuffers')] = <<>>
                           /\ UNCHANGED mReadyBuffers
                      ELSE \E i \in hits :
                            /\ \A j \in hits : i <= j
                            /\ lockedBuffers'[Len(lockedBuffers')] = <<mReadyBuffers[i]>>
                            /\ mReadyBuffers' = RemoveAt(mReadyBuffers, i)
       /\ \A h \in DOMAIN lockedBuffers :
            (lockedBuffers[h] = <<>> /\ lockedBuffers' = RemoveAt(lockedBuffers, h))
            => UNCHANGED <<mReadyBuffers, mUnusedBuffers>>]_vars

\* a consumer holds the earlier of two ready buffers with the same timestamp, the later
\* one is still ready, and a second consume found no match
C23_FirstOfTwoConsumed ==
    /\ saveBudget.save = MaxSaveCalls
    /\ Len(lockedBuffers) = 2 /\ lockedBuffers[2] = <<>>
    /\ Len(lockedBuffers[1]) = 1 /\ Len(mReadyBuffers) = 1
    /\ metadata[lockedBuffers[1][1]].timestampNs = metadata[mReadyBuffers[1]].timestampNs
    /\ arrived = <<lockedBuffers[1][1], mReadyBuffers[1]>>

\* C24: dropping the LockedBuffers handed out by consumeLatestBuffer, consumeBuffer or
\* consumeAllBuffers returns every buffer it holds to the ready list exactly once: after
\* a consume followed at once by the drop the ready list holds the buffers it held
\* before the consume, and neither step puts a buffer on the free queue
C24_DropReturnsToReady ==
    [][/\ Len(lockedBuffers') = Len(lockedBuffers) + 1
          => LET after == ReturnBuffers(mReadyBuffers', lockedBuffers'[Len(lockedBuffers')])
             IN  /\ \A b \in 1..MaxBuffers : Count(after, b) = Count(mReadyBuffers, b)
                 /\ UNCHANGED mUnusedBuffers
       /\ \A h \in DOMAIN lockedBuffers :
            (Len(lockedBuffers') < Len(lockedBuffers) /\ lockedBuffers' = RemoveAt(lockedBuffers, h))
            => /\ \A b \in 1..MaxBuffers :
                    Count(mReadyBuffers', b)
                    = Count(mReadyBuffers, b) + Count(lockedBuffers[h], b)
               /\ UNCHANGED mUnusedBuffers]_vars

\* two buffers were consumed and dropped with no save() called: both are ready again,
\* in another order than they arrived in, and nothing is loaned or free
C24_ConsumedAndDropped ==
    /\ saveBudget.save = MaxSaveCalls
    /\ lockedBuffers = <<>>
    /\ Len(mReadyBuffers) = 2
    /\ mReadyBuffers # arrived
    /\ Range(mReadyBuffers) = Range(arrived)
    /\ mUnusedBuffers = <<>>

\* C25: saveHdr moves all HDR-tagged ready buffers out of the ready list in one step and
\* returns exactly those buffers to the free queue: afterwards no HDR-tagged buffer is
\* ready, every drained buffer is free, and the other ready buffers are unchanged in
\* their relative order
C25_SaveHdrDrains ==
    [][saveBudget'.saveHdr < saveBudget.saveHdr
       => LET drained == {b \in Range(mReadyBuffers) : metadata[b].rawType = "HDR"} IN
          /\ \A b \in Range(mReadyBuffers') : metadata[b].rawType # "HDR"
          /\ \A b \in drained : Count(mUnusedBuffers', b) = Count(mUnusedBuffers, b) + 1
          /\ \A b \in (1..MaxBuffers) \ drained :
                Count(mUnusedBuffers', b) = Count(mUnusedBuffers, b)
          /\ mReadyBuffers' = Filter(mReadyBuffers, Range(mReadyBuffers) \ drained)]_vars

\* saveHdr drained an HDR buffer into the in-memory container and left a ZSL buffer
\* ready
C25_HdrDrainedZslLeft ==
    /\ saveBudget.saveHdr = 0
    /\ saveBudget.save = MaxSaveCalls
    /\ mPendingContainer.isHdr
    /\ Len(mPendingContainer.frames) = 1
    /\ mPendingContainer.frames[1] \in Range(mUnusedBuffers)
    /\ Len(mReadyBuffers) = 1
    /\ metadata[mReadyBuffers[1]].rawType = "ZSL"

\* C26: when a ready buffer with the reference timestamp exists, save() packages that
\* buffer plus min(numSaveBuffers, |ready| - 1) further ready buffers, chosen greedily
\* as the closest neighbours of the reference in ready order by absolute timestamp
\* difference: at each step the closer of the next-left and the next-right candidate
C26_SaveClosestNeighbours ==
    [][(/\ saveCall.pc = "packaging" /\ saveCall'.pc = "restoring"
        /\ ReferenceFound(saveCall.allBuffers, metadata, saveCall.referenceTimestamp))
       => LET all == saveCall.allBuffers
              frames == IF mPendingContainer = NoContainer THEN mPendingContainer'.frames
                        ELSE diskContainer'.frames
              extra == IF saveCall.numSaveBuffers < Len(all) - 1
                       THEN saveCall.numSaveBuffers ELSE Len(all) - 1
              idx(k) == CHOOSE i \in DOMAIN all : all[i] = frames[k]
              diff(i) == Abs(metadata[all[i]].timestampNs - saveCall.referenceTimestamp)
          IN  /\ Len(frames) = 1 + extra
              /\ metadata[frames[1]].timestampNs = saveCall.referenceTimestamp
              /\ \A k \in 1..(Len(frames) - 1) :
                    LET taken == {idx(j) : j \in 1..k}
                        left == (CHOOSE i \in taken : \A j \in taken : i <= j) - 1
                        right == (CHOOSE i \in taken : \A j \in taken : i >= j) + 1
                        next == idx(k + 1)
                    IN  /\ next \in {left, right} \cap DOMAIN all
                        /\ \A other \in ({left, right} \cap DOMAIN all) \ {next} :
                                diff(next) <= diff(other)]_vars

\* C27: save() leaves the ready list as it found it, the same buffers in the same
\* order, when no other thread touches the pool during the call, on the in-memory path
\* and on the disk path alike, and it leaves the free queue unchanged
C27_SaveRestoresReady ==
    [][/\ (saveCall.pc = "restoring" /\ saveCall'.pc = "idle")
          => mReadyBuffers' = saveCall.allBuffers
       /\ (saveBudget'.save < saveBudget.save /\ saveCall'.pc = "idle")
          => UNCHANGED mReadyBuffers
       /\ (saveBudget'.save < saveBudget.save \/ saveCall'.pc # saveCall.pc)
          => UNCHANGED mUnusedBuffers]_vars

\* a save() call has returned after writing its container to disk, a container being
\* pending in memory: the buffers it packaged are ready
C27_SavedToDisk ==
    /\ saveBudget.save = 0
    /\ saveCall.pc = "idle"
    /\ mPendingContainer # NoContainer
    /\ diskContainer # NoContainer /\ ~diskContainer.isHdr
    /\ mReadyBuffers # <<>>
    /\ Range(diskContainer.frames) \subseteq Range(mReadyBuffers)

\* C28: every HDR job accepted by captureHdr eventually ends: the job leaves the
\* in-progress state (completed or failed having been fired), also when the capture
\* submission fails, when the session is not ACTIVE, when the pool holds fewer than
\* N+1 buffers, or when no further image arrives after the sequence completed
C28_HdrJobEnds == mHdrCaptureInProgress ~> (~mHdrCaptureInProgress \/ crashed)

\* C29: at most one HDR job is active at any time, also when captureHdr is called
\* from two host threads at once: of two racing calls made while no job is in
\* progress, at most one posts CAPTURE_HDR and stores its path and settings
C29_AtMostOneJobAccepted ==
    [][(/\ Len(racingCalls') < Len(racingCalls)
        /\ Len(eventLoopQueue') > Len(eventLoopQueue))
       => ~mHdrCaptureInProgress]_vars

C31_FocusProtocol ==
    [][/\ (/\ Handles("ACTION_SET_FOCUS_POINT")
           /\ mState = "ACTIVE" /\ ~ZeroAfRegions(mCameraDescription)
           /\ repeatCaptureRequest.created /\ ~crashed')
          => /\ emitted' # <<>> /\ emitted'[1] = Call("abortCaptures")
             /\ \A i \in DOMAIN emitted' :
                    emitted'[i].call = "capture" =>
                        /\ i = 2
                        /\ repeatCaptureRequest'.afMode = "AUTO"
                        /\ repeatCaptureRequest'.afTrigger = "START"
       /\ (/\ adapter'.afCaptures < adapter.afCaptures
           /\ "abortCaptures" \notin Calls(emitted')
           /\ adapter'.session /\ mSessionContext)
          => \E i \in DOMAIN eventLoopQueue' :
                /\ i > Len(eventLoopQueue)
                /\ eventLoopQueue'[i].eventAction = "EVENT_CAMERA_TRIGGER_AF_COMPLETED"
       /\ (/\ Handles("EVENT_CAMERA_TRIGGER_AF_COMPLETED")
           /\ repeatCaptureRequest.created /\ ~crashed')
          => /\ repeatCaptureRequest'.afTrigger = "IDLE"
             /\ repeatCaptureRequest'.aePrecaptureTrigger = "IDLE"
             /\ repeatCaptureRequest'.afMode = "AUTO"
             /\ \/ /\ emitted' = <<Call("setRepeatingRequest")>>
                   /\ adapter'.repeating
                   /\ eventLoopQueue' = Tail(eventLoopQueue)
                \/ /\ ~adapter'.repeating
                   /\ eventLoopQueue' = Append(Tail(eventLoopQueue),
                                               Event("ACTION_CLOSE_CAMERA"))]_vars

\* the focus protocol has run to its end in a camera with AE regions: the one-shot
\* capture completed, TRIGGER_AF_COMPLETED was processed, the triggers are idle and
\* the session streams the repeating request again
C31_FocusProtocolDone ==
    /\ repeatCaptureRequest.afRegions = "set"
    /\ repeatCaptureRequest.aeRegions = "set"
    /\ repeatCaptureRequest.afTrigger = "IDLE"
    /\ repeatCaptureRequest.aePrecaptureTrigger = "IDLE"
    /\ repeatCaptureRequest.afMode = "AUTO"
    /\ adapter.repeating
    /\ emitted = <<Call("setRepeatingRequest")>>

\* C32: state-guarded requests issued in the wrong state are ignored without error:
\* PAUSE handled when the session state is not ACTIVE and RESUME handled when it is
\* not READY make no adapter call, post no event, notify no listener (the step only
\* logs a warning) and leave mode, cached exposure values and the repeating request
\* unchanged
C32_WrongStateIgnored ==
    [][(\/ Handles("ACTION_PAUSE_CAPTURE") /\ mState # "ACTIVE"
        \/ Handles("ACTION_RESUME_CAPTURE") /\ mState # "READY")
       => /\ eventLoopQueue' = Tail(eventLoopQueue)
          /\ \A i \in DOMAIN emitted' :
                emitted'[i].call \in {"LOGW Cannot pause capture, invalid state",
                                      "LOGW Cannot resume capture, invalid state"}
          /\ ~crashed'
          /\ UNCHANGED <<adapter, requestVars, mLastIso, mState, nativeObjects, hdrVars,
                         eventLoop>>]_vars

\* a RESUME was handled while the session was ACTIVE and streaming, and dropped
C32_ResumeDroppedWhileActive ==
    /\ mState = "ACTIVE"
    /\ adapter.repeating
    /\ emitted = <<Call("LOGW Cannot resume capture, invalid state")>>

\* C33: the pending in-memory container slot is written only when it is empty: a save
\* or saveHdr call made while a container is pending, including one racing with
\* another save on a different thread, writes its set to disk and leaves the pending
\* container unchanged until it is explicitly cleared
C33_PendingWrittenOnlyWhenEmpty ==
    [][mPendingContainer' # mPendingContainer
       => (mPendingContainer = NoContainer \/ mPendingContainer' = NoContainer)]_vars

\* C34: after a CLOSE event has been processed, no later event in the queue (exposure,
\* exposure compensation, focus, auto-focus, resume, CAPTURE_HDR,
\* TRIGGER_AF_COMPLETED) causes an adapter call on the released capture session or a
\* write to the capture requests: in a session context whose camera doCloseCamera has
\* released after the session had come up, the handling of such an event makes no
\* adapter call and leaves the repeating request as it is
C34_CloseCancelsQueued ==
    [][(/\ nativeObjects.captureRequests /\ ~nativeObjects.activeCamera
        /\ mState # "CLOSED"
        /\ \E action \in (ApiActions \ {"ACTION_PAUSE_CAPTURE"})
                            \cup {"EVENT_CAMERA_TRIGGER_AF_COMPLETED"} :
                Handles(action))
       => /\ Calls(emitted') \cap {"setRepeatingRequest", "stopRepeating", "capture",
                                    "abortCaptures"} = {}
          /\ UNCHANGED repeatCaptureRequest]_vars

\* C35: HDR listener callbacks are fired only for a job in progress: after a job's
\* terminal callback (completed or failed) has cleared the in-progress flag, no HDR
\* progress, completed or failed callback is fired until another captureHdr is
\* accepted, even if SAVE_HDR_DATA events posted during the job are still in the queue
C35_HdrCallbacksOnlyInProgress ==
    [][(Handles("EVENT_SAVE_HDR_DATA") /\ ~mHdrCaptureInProgress)
       => Calls(emitted') \cap {"onCameraHdrImageCaptureProgress",
                                "onCameraHdrImageCaptureCompleted",
                                "onCameraHdrImageCaptureFailed"} = {}]_vars

\* C36: the sequence-complete flag and the time point an HDR job's timeout is measured
\* from are set only by the sequence-completed or sequence-aborted callback of that
\* job's own capture sequence: while the job in progress still has its CAPTURE_HDR
\* event waiting in the queue, so that its sequence has not been submitted yet, no
\* callback sets the flag or moves the time point
C36_OwnSequenceStartsTimeout ==
    [][(/\ mHdrCaptureInProgress
        /\ \E i \in DOMAIN eventLoopQueue :
                /\ eventLoopQueue[i].eventAction = "ACTION_CAPTURE_HDR"
                /\ eventLoopQueue[i].numImages >= 1
        /\ eventLoopQueue' = eventLoopQueue)
       => /\ mHdrCaptureSequenceCompleted' = mHdrCaptureSequenceCompleted
          /\ mHdrSequenceCompletedTimePoint' = mHdrSequenceCompletedTimePoint]_vars

\* C37: an HDR job completes only with frames of its own sequence: when a new HDR job
\* is accepted, the ready list holds no HDR-tagged buffer left over from an earlier
\* job (in particular one that ended by timeout), so the count compared against N+1
\* only includes buffers captured for the current job
C37_NoHdrLeftoverAtAccept ==
    [][(~mHdrCaptureInProgress /\ mHdrCaptureInProgress')
       => NumHdrBuffers(mReadyBuffers, metadata) = 0]_vars

\* C38: an HDR job does not outlive its session: whenever no session is open and the
\* host is in no call (closeCamera has returned, or captureHdr was called with no
\* session open), no HDR job is in progress, so that the first captureHdr after the
\* next open is accepted
C38_NoHdrJobWithoutSession ==
    (~mSessionContext /\ hostPc = "idle") => ~mHdrCaptureInProgress

\* C39: no thread enqueues an event into a session context after closeCamera has
\* released that context: a pushEvent call that has passed its test of the session
\* context makes its enqueue while the context is still there
C39_EnqueueTargetsLiveContext ==
    [][(adapter.pushEvent # "" /\ adapter'.pushEvent = "") => mSessionContext]_vars

\* C40: after an accepted focus-point request has aborted the repeating stream, the
\* repeating request is eventually re-issued while the session stays open, also when
\* the one-shot TRIGGER_AF capture fails or is aborted instead of completing
C40_StreamResumesAfterFocus ==
    (/\ adapter.session /\ ~adapter.repeating
     /\ repeatCaptureRequest.afTrigger = "START")
    ~> (adapter.repeating \/ ~adapter.session \/ crashed)

====
